---- MODULE Spec2Model ----
(***************************************************************************)
(* A model of the command-line option interpreter of esbuild               *)
(* (pkg/cli/cli_impl.go): the option binder parseOptionsImpl, the target   *)
(* resolver parseTargets, the mode selector parseOptionsForRun, the serve  *)
(* config resolver parseServeOptionsImpl and the orchestrators runImpl and *)
(* serveImpl.  Arguments are genuine strings; Go slices s[a:b] are         *)
(* rendered with SubSeq.  A Go pointer is a sequence of length 0 (nil) or  *)
(* 1 (the pointee).                                                        *)
(***************************************************************************)
EXTENDS Integers, Sequences, FiniteSets, TLC

(***************************************************************************)
(* Bounds of the model.                                                    *)
(***************************************************************************)
MaxArgs == 3

\* the most rebuilds the engine makes in one watch-mode run
MaxRebuilds == 1

(***************************************************************************)
(* Go's strings package.                                                   *)
(***************************************************************************)
HasPrefix(s, prefix) ==
  /\ Len(s) >= Len(prefix)
  /\ SubSeq(s, 1, Len(prefix)) = prefix

\* s[a:b] and s[a:] of Go, with 0-based offsets
Slice(s, a, b) == SubSeq(s, a + 1, b)
SliceFrom(s, a) == SubSeq(s, a + 1, Len(s))

RECURSIVE IndexByteFrom(_, _, _)
IndexByteFrom(s, c, i) ==
  IF i > Len(s) THEN -1
  ELSE IF SubSeq(s, i, i) = c THEN i - 1
  ELSE IndexByteFrom(s, c, i + 1)

\* strings.IndexByte: the 0-based offset of the first c in s, or -1
IndexByte(s, c) == IndexByteFrom(s, c, 1)

ContainsRune(s, c) == IndexByte(s, c) # -1

RECURSIVE Split(_, _)
\* strings.Split for a one-byte separator
Split(s, sep) ==
  LET i == IndexByte(s, sep)
  IN  IF i = -1 THEN <<s>>
      ELSE <<Slice(s, 0, i)>> \o Split(SliceFrom(s, i + 1), sep)

LowerOf(c) ==
  CASE c = "A" -> "a" [] c = "B" -> "b" [] c = "C" -> "c" [] c = "D" -> "d"
    [] c = "E" -> "e" [] c = "F" -> "f" [] c = "G" -> "g" [] c = "H" -> "h"
    [] c = "I" -> "i" [] c = "J" -> "j" [] c = "K" -> "k" [] c = "L" -> "l"
    [] c = "M" -> "m" [] c = "N" -> "n" [] c = "O" -> "o" [] c = "P" -> "p"
    [] c = "Q" -> "q" [] c = "R" -> "r" [] c = "S" -> "s" [] c = "T" -> "t"
    [] c = "U" -> "u" [] c = "V" -> "v" [] c = "W" -> "w" [] c = "X" -> "x"
    [] c = "Y" -> "y" [] c = "Z" -> "z" [] OTHER -> c

RECURSIVE ToLower(_)
ToLower(s) ==
  IF s = "" THEN ""
  ELSE LowerOf(SubSeq(s, 1, 1)) \o ToLower(SliceFrom(s, 1))

\* fmt's %q for the strings of the model (none needs an escape)
Quote(s) == "\"" \o s \o "\""

DigitOf(c) ==
  CASE c = "0" -> 0 [] c = "1" -> 1 [] c = "2" -> 2 [] c = "3" -> 3
    [] c = "4" -> 4 [] c = "5" -> 5 [] c = "6" -> 6 [] c = "7" -> 7
    [] c = "8" -> 8 [] c = "9" -> 9 [] OTHER -> -1

RECURSIVE DigitsValue(_, _)
\* the value of a string of decimal digits, or -1 when a byte is no digit
DigitsValue(s, acc) ==
  IF s = "" THEN acc
  ELSE LET d == DigitOf(SubSeq(s, 1, 1))
       IN  IF d = -1 THEN -1 ELSE DigitsValue(SliceFrom(s, 1), acc * 10 + d)

RECURSIVE TrimZeros(_)
TrimZeros(s) ==
  IF Len(s) > 1 /\ SubSeq(s, 1, 1) = "0" THEN TrimZeros(SliceFrom(s, 1)) ELSE s

\* strconv.ParseInt(s, 10, 32): [ok, v].  An optional sign, then decimal
\* digits only; a value outside [-2^31, 2^31-1] is a range error.
ParseInt32(s) ==
  LET signed == s # "" /\ SubSeq(s, 1, 1) \in {"+", "-"}
      neg    == signed /\ SubSeq(s, 1, 1) = "-"
      body   == IF signed THEN SliceFrom(s, 1) ELSE s
      syntax == body = "" \/ \E i \in 1..Len(body) : DigitOf(SubSeq(body, i, i)) = -1
      sig    == TrimZeros(body)
      hi     == DigitsValue(SubSeq(sig, 1, 9), 0)
      lo     == DigitOf(SubSeq(sig, 10, 10))
      range  == \/ Len(sig) > 10
                \/ /\ Len(sig) = 10
                   /\ \/ hi > 214748364
                      \/ hi = 214748364 /\ lo > (IF neg THEN 8 ELSE 7)
      mag    == IF Len(sig) = 10 THEN hi * 10 + lo ELSE DigitsValue(sig, 0)
  IN  IF syntax \/ range THEN [ok |-> FALSE, v |-> 0]
      ELSE IF neg THEN [ok |-> TRUE, v |-> IF Len(sig) = 10 THEN (0 - hi * 10) - lo ELSE 0 - mag]
      ELSE [ok |-> TRUE, v |-> mag]

\* strconv.Atoi is ParseInt(s, 10, 0); the width of int is that of a 32-bit
\* build, the widest that TLC's integers can hold.
Atoi(s) == ParseInt32(s)

(***************************************************************************)
(* Go maps: functions over a finite set of keys.                           *)
(***************************************************************************)
EmptyMap == [k \in {} |-> ""]
\* an assignment that keeps the value a key already has
MapPutKeepsFirst(m, k, v) ==
  [x \in (DOMAIN m) \cup {k} |-> IF x \in DOMAIN m THEN m[x] ELSE v]

\* m[k] = v
MapPut(m, k, v) == [x \in (DOMAIN m) \cup {k} |-> IF x = k THEN v ELSE m[x]]

\* an append that drops a value the list already holds
appendUnique(list, x) ==
  IF \E i \in 1..Len(list) : list[i] = x THEN list ELSE Append(list, x)

\* the builtin append(list, x)
append(list, x) == Append(list, x)

\* Special-case the empty string to return [] instead of [""]
splitWithEmptyCheck(s, sep) == IF s = "" THEN <<>> ELSE Split(s, sep)

(***************************************************************************)
(* internal/cli_helpers                                                    *)
(***************************************************************************)
MakeErrorWithNote(text, note) == [Text |-> text, Note |-> note]

ValidLoaders ==
  {"js", "jsx", "ts", "tsx", "css", "json", "text", "base64", "dataurl",
   "file", "binary", "default"}

\* cli_helpers.ParseLoader: [ok, loader, err]
ParseLoader(text) ==
  IF text \in ValidLoaders
  THEN [ok |-> TRUE, loader |-> text, err |-> MakeErrorWithNote("", "")]
  ELSE [ok |-> FALSE, loader |-> "none",
        err |-> MakeErrorWithNote("Invalid loader value: " \o Quote(text),
                                  "Valid values are a loader name.")]

(***************************************************************************)
(* sort.Strings: byte-wise lexicographic order.                            *)
(***************************************************************************)
AsciiOrder == "\"'+,-.0123456789:=ABCDEFGHIJKLMNOPQRSTUVWXYZ_abcdefghijklmnopqrstuvwxyz"
AsciiCode ==
  [c \in {SubSeq(AsciiOrder, i, i) : i \in 1..Len(AsciiOrder)} |-> IndexByte(AsciiOrder, c)]
Code(c) == AsciiCode[c]

RECURSIVE StrLess(_, _)
StrLess(a, b) ==
  IF b = "" THEN FALSE
  ELSE IF a = "" THEN TRUE
  ELSE LET ca == Code(SubSeq(a, 1, 1))
           cb == Code(SubSeq(b, 1, 1))
       IN  IF ca # cb THEN ca < cb
           ELSE StrLess(SliceFrom(a, 1), SliceFrom(b, 1))

RECURSIVE Insert(_, _)
Insert(sorted, x) ==
  IF sorted = <<>> THEN <<x>>
  ELSE IF StrLess(x, Head(sorted)) THEN <<x>> \o sorted
  ELSE <<Head(sorted)>> \o Insert(Tail(sorted), x)

RECURSIVE SortStrings(_)
SortStrings(xs) ==
  IF xs = <<>> THEN <<>> ELSE Insert(SortStrings(Tail(xs)), Head(xs))

RECURSIVE Join(_, _)
\* strings.Join
Join(xs, sep) ==
  IF xs = <<>> THEN ""
  ELSE IF Len(xs) = 1 THEN xs[1]
  ELSE xs[1] \o sep \o Join(Tail(xs), sep)

(***************************************************************************)
(* parseTargets                                                            *)
(***************************************************************************)
\* the keys of validTargets with the api.Target each names
validTargets ==
  [k \in {"esnext", "es5", "es6", "es2015", "es2016", "es2017", "es2018",
          "es2019", "es2020", "es2021"} |->
     IF k = "es6" THEN "es2015" ELSE k]

\* the keys of validEngines; api.EngineName is the key itself
validEngines == {"chrome", "firefox", "safari", "edge", "node", "ios"}

\* Go iterates over a map in an unspecified order: an iteration order is a
\* sequence that lists every key once.
IsOrderOf(order, keys) ==
  /\ Len(order) = Cardinality(keys)
  /\ {order[i] : i \in 1..Len(order)} = keys

Rotate(order, n) ==
  [i \in 1..Len(order) |-> order[((i + n - 1) % Len(order)) + 1]]
Reverse(order) == [i \in 1..Len(order) |-> order[Len(order) + 1 - i]]

\* the iteration orders the model draws from: every rotation of the table
\* and of its reverse, so that every key comes first and every pair of keys
\* is met in both orders
EngineOrdersOf(table) ==
  {Rotate(table, n) : n \in 0..(Len(table) - 1)}
    \cup {Rotate(Reverse(table), n) : n \in 0..(Len(table) - 1)}

\* a table in which one engine name is a prefix of another
EngineTableWithPrefix == <<"chrome", "firefox", "safari", "edge", "node", "ios", "edg">>

EngineTable == <<"chrome", "firefox", "safari", "edge", "node", "ios">>
EngineOrders == EngineOrdersOf(EngineTable)

\* the inner loop "for engine, name := range validEngines": the first key in
\* iteration order that is a prefix of value, <<>> when there is none
RECURSIVE FirstEngine(_, _)
FirstEngine(value, order) ==
  IF order = <<>> THEN <<>>
  ELSE IF HasPrefix(value, Head(order)) THEN <<Head(order)>>
  ELSE FirstEngine(value, Tail(order))

\* a note that sorts the engine forms alone and keeps "esN" at the head
InvalidTargetNoteBaselineFirst(order) ==
  LET engines == <<Quote("esN")>> \o
                   SortStrings([i \in 1..Len(order) |-> Quote(order[i] \o "N")])
  IN  "Valid values are " \o Join(SubSeq(engines, 1, Len(engines) - 1), ", ")
        \o ", or " \o engines[Len(engines)] \o " where N is a version number."

\* the note that lists the valid forms
InvalidTargetNote(order) ==
  LET engines == SortStrings(<<Quote("esN")>> \o
                   [i \in 1..Len(order) |-> Quote(order[i] \o "N")])
  IN  "Valid values are " \o Join(SubSeq(engines, 1, Len(engines) - 1), ", ")
        \o ", or " \o engines[Len(engines)] \o " where N is a version number."

RECURSIVE parseTargetsLoop(_, _, _, _, _)
\* the loop labelled "outer", from the token at the head of targets on
parseTargetsLoop(targets, arg, order, target, engines) ==
  IF targets = <<>> THEN [target |-> target, engines |-> engines, err |-> <<>>]
  ELSE
    LET value == Head(targets)
        lower == ToLower(value)
        hit   == FirstEngine(value, order)
    IN  IF lower \in DOMAIN validTargets
        THEN parseTargetsLoop(Tail(targets), arg, order, validTargets[lower], engines)
        ELSE IF hit # <<>>
        THEN LET version == SliceFrom(value, Len(hit[1]))
             IN  IF version = ""
                 THEN [target |-> "default", engines |-> <<>>,
                       err |-> <<MakeErrorWithNote(
                         "Target " \o Quote(value) \o " is missing a version number in "
                           \o Quote(arg), "")>>]
                 ELSE parseTargetsLoop(Tail(targets), arg, order, target,
                        append(engines, [Name |-> hit[1], Version |-> version]))
        ELSE [target |-> "default", engines |-> <<>>,
              err |-> <<MakeErrorWithNote(
                "Invalid target " \o Quote(value) \o " in " \o Quote(arg),
                InvalidTargetNote(order))>>]

\* a resolver that skips the tokens it cannot resolve
parseTargetsSkipsInvalid(targets, arg, order) ==
  LET resolvable(tok) ==
        \/ ToLower(tok) \in DOMAIN validTargets
        \/ FirstEngine(tok, order) # <<>> /\ tok # FirstEngine(tok, order)[1]
  IN  parseTargetsLoop(SelectSeq(targets, resolvable), arg, order, "default", <<>>)

\* a resolver that returns no more than the first engine constraint
parseTargetsKeepsFirstEngine(targets, arg, order) ==
  LET r == parseTargetsLoop(targets, arg, order, "default", <<>>)
  IN  [r EXCEPT !.engines = SubSeq(@, 1, IF Len(@) > 1 THEN 1 ELSE Len(@))]

parseTargets(targets, arg, order) ==
  parseTargetsLoop(targets, arg, order, "default", <<>>)

(***************************************************************************)
(* api.BuildOptions and api.TransformOptions as the CLI fills them.        *)
(***************************************************************************)
\* newBuildOptions(): the zero value with the four maps made
newBuildOptions ==
  [Bundle |-> FALSE, PreserveSymlinks |-> FALSE, Splitting |-> FALSE,
   AllowOverwrite |-> FALSE, Watch |-> <<>>,
   MinifySyntax |-> FALSE, MinifyWhitespace |-> FALSE, MinifyIdentifiers |-> FALSE,
   LegalComments |-> "default", Charset |-> "default", TreeShaking |-> "default",
   IgnoreAnnotations |-> FALSE, KeepNames |-> FALSE,
   Sourcemap |-> "none", SourceRoot |-> "", SourcesContent |-> "default",
   Stdin |-> <<>>,
   ResolveExtensions |-> <<>>, MainFields |-> <<>>, Conditions |-> <<>>,
   PublicPath |-> "", GlobalName |-> "", Metafile |-> FALSE,
   Outfile |-> "", Outdir |-> "", Outbase |-> "", Tsconfig |-> "",
   EntryNames |-> "", ChunkNames |-> "", AssetNames |-> "",
   Define |-> EmptyMap, Pure |-> <<>>, Loader |-> EmptyMap,
   Target |-> "default", Engines |-> <<>>, OutExtensions |-> EmptyMap,
   Platform |-> "default", Format |-> "default",
   External |-> <<>>, Inject |-> <<>>,
   JSXMode |-> "transform", JSXFactory |-> "", JSXFragment |-> "",
   Banner |-> EmptyMap, Footer |-> EmptyMap,
   LogLimit |-> 0, Color |-> "default", LogLevel |-> "silent",
   EntryPoints |-> <<>>, EntryPointsAdvanced |-> <<>>,
   Write |-> FALSE, NodePaths |-> <<>>]

\* newTransformOptions()
newTransformOptions ==
  [MinifySyntax |-> FALSE, MinifyWhitespace |-> FALSE, MinifyIdentifiers |-> FALSE,
   LegalComments |-> "default", Charset |-> "default", TreeShaking |-> "default",
   IgnoreAnnotations |-> FALSE, KeepNames |-> FALSE,
   Sourcemap |-> "none", SourceRoot |-> "", SourcesContent |-> "default",
   Sourcefile |-> "", GlobalName |-> "", TsconfigRaw |-> "",
   Define |-> EmptyMap, Pure |-> <<>>, Loader |-> "none",
   Target |-> "default", Engines |-> <<>>, Format |-> "default",
   JSXMode |-> "transform", JSXFactory |-> "", JSXFragment |-> "",
   Banner |-> "", Footer |-> "",
   LogLimit |-> 0, Color |-> "default", LogLevel |-> "silent"]

\* api.StdinOptions{}
newStdinOptions ==
  [Contents |-> "", ResolveDir |-> "", Sourcefile |-> "", Loader |-> "none"]

\* parseOptionsKind
kindInternal == 0
kindExternal == 1

(***************************************************************************)
(* parseOptionsImpl: the state of one pass is                              *)
(*   b, t     the pointers buildOpts and transformOpts                     *)
(*   bare     hasBareSourceMapFlag                                         *)
(*   metafile the returned metafile pointer                                *)
(*   err      the returned error pointer                                   *)
(***************************************************************************)
\* a binder in which the output directory takes the place of the output file
SetBOutdirClearsOutfile(st, f, v) ==
  IF f = "Outdir" THEN [st EXCEPT !.b = <<[@[1] EXCEPT !.Outdir = v, !.Outfile = ""]>>]
  ELSE [st EXCEPT !.b = <<[@[1] EXCEPT ![f] = v]>>]

SetB(st, f, v) == [st EXCEPT !.b = <<[st.b[1] EXCEPT ![f] = v]>>]
SetT(st, f, v) == [st EXCEPT !.t = <<[st.t[1] EXCEPT ![f] = v]>>]

\* "if buildOpts != nil { buildOpts.f = v } else { transformOpts.f = v }"
SetEither(st, f, v) == IF st.b # <<>> THEN SetB(st, f, v) ELSE SetT(st, f, v)

\* "return cli_helpers.MakeErrorWithNote(text, note), nil"
Fail(st, text, note) ==
  [st EXCEPT !.err = <<MakeErrorWithNote(text, note)>>, !.metafile = <<>>]

\* a flag whose value must be one of an enumerated domain
EnumFlag(st, arg, prefix, f, domain, note) ==
  LET value == SliceFrom(arg, Len(prefix))
  IN  IF value \in domain THEN SetEither(st, f, value)
      ELSE Fail(st, "Invalid value " \o Quote(value) \o " in " \o Quote(arg), note)

\* "--define:", "--banner:", "--footer:", "--out-extension:": key=value
MapFlag(st, arg, prefix, f, note, both) ==
  LET value  == SliceFrom(arg, Len(prefix))
      equals == IndexByte(value, "=")
      k      == Slice(value, 0, equals)
      v      == SliceFrom(value, equals + 1)
  IN  IF equals = -1 THEN Fail(st, "Missing \"=\" in " \o Quote(arg), note)
      ELSE IF st.b # <<>> THEN SetB(st, f, MapPut(st.b[1][f], k, v))
      ELSE IF both THEN SetT(st, f, MapPut(st.t[1][f], k, v))
      ELSE st

\* "if buildOpts.Stdin == nil { buildOpts.Stdin = &api.StdinOptions{} }"
\* followed by an assignment to a field of it
SetStdin(st, f, v) ==
  LET cur == IF st.b[1].Stdin = <<>> THEN newStdinOptions ELSE st.b[1].Stdin[1]
  IN  SetB(st, "Stdin", <<[cur EXCEPT ![f] = v]>>)

(***************************************************************************)
(* The flag classification tables of the default case.                     *)
(***************************************************************************)
bare ==
  {"allow-overwrite", "bundle", "ignore-annotations", "keep-names", "metafile",
   "minify-identifiers", "minify-syntax", "minify-whitespace", "minify",
   "preserve-symlinks", "sourcemap", "splitting", "watch"}

equals ==
  {"legal-comments", "charset", "tree-shaking", "sourcemap", "source-root",
   "sources-content", "sourcefile", "resolve-extensions", "main-fields",
   "conditions", "public-path", "global-name", "outfile", "outdir", "outbase",
   "tsconfig", "tsconfig-raw", "entry-names", "chunk-names", "asset-names",
   "loader", "target", "platform", "format", "jsx", "jsx-factory",
   "jsx-fragment", "banner", "footer", "log-limit", "color", "log-level"}

colon ==
  {"define", "pure", "loader", "out-extension", "external", "inject",
   "banner", "footer"}

UseInstead(fix, arg, why) ==
  "Use " \o Quote(fix) \o " instead of " \o Quote(arg) \o ". " \o why

\* a note whose second check does not look the key up in the equals table
DoubleDashNoteAnyColon(arg) ==
  LET i  == IndexByte(arg, "=")
      n1 == IF i # -1 /\ Slice(arg, 2, i) \in colon
            THEN UseInstead(Slice(arg, 0, i) \o ":" \o SliceFrom(arg, i + 1), arg,
                   "Flags that can be re-specified multiple times use \":\" instead of \"=\".")
            ELSE ""
      j  == IndexByte(arg, ":")
  IN  IF j # -1
      THEN UseInstead(Slice(arg, 0, j) \o "=" \o SliceFrom(arg, j + 1), arg,
             "Flags that can only be specified once use \"=\" instead of \":\".")
      ELSE n1

\* the note of the case strings.HasPrefix(arg, "--"): two successive ifs,
\* the second overwriting the note of the first
DoubleDashNote(arg) ==
  LET i  == IndexByte(arg, "=")
      n1 == IF i # -1 /\ Slice(arg, 2, i) \in colon
            THEN UseInstead(Slice(arg, 0, i) \o ":" \o SliceFrom(arg, i + 1), arg,
                   "Flags that can be re-specified multiple times use \":\" instead of \"=\".")
            ELSE ""
      j  == IndexByte(arg, ":")
  IN  IF j # -1 /\ Slice(arg, 2, j) \in equals
      THEN UseInstead(Slice(arg, 0, j) \o "=" \o SliceFrom(arg, j + 1), arg,
             "Flags that can only be specified once use \"=\" instead of \":\".")
      ELSE n1

\* a note that adds the dash and leaves the separator as it was written
SingleDashNoteKeepsSeparator(arg) ==
  LET i == IndexByte(arg, "=")
      j == IndexByte(arg, ":")
  IN  IF \/ i # -1 /\ Slice(arg, 1, i) \in (equals \cup colon)
         \/ j # -1 /\ Slice(arg, 1, j) \in (equals \cup colon)
         \/ SliceFrom(arg, 1) \in bare
      THEN UseInstead("-" \o arg, arg,
             "Flags are always specified with two dashes instead of one dash.")
      ELSE ""

\* the note of the case strings.HasPrefix(arg, "-")
SingleDashNote(arg) ==
  LET i  == IndexByte(arg, "=")
      j  == IndexByte(arg, ":")
      r  == IF i # -1 /\ Slice(arg, 1, i) \in equals
            THEN [isValid |-> TRUE, fix |-> "-" \o arg]
            ELSE IF i # -1 /\ Slice(arg, 1, i) \in colon
            THEN [isValid |-> TRUE,
                  fix |-> "-" \o Slice(arg, 0, i) \o ":" \o SliceFrom(arg, i + 1)]
            ELSE IF j # -1 /\ Slice(arg, 1, j) \in colon
            THEN [isValid |-> TRUE, fix |-> "-" \o arg]
            ELSE IF j # -1 /\ Slice(arg, 1, j) \in equals
            THEN [isValid |-> TRUE,
                  fix |-> "-" \o Slice(arg, 0, j) \o "=" \o SliceFrom(arg, j + 1)]
            ELSE [isValid |-> SliceFrom(arg, 1) \in bare, fix |-> "-" \o arg]
  IN  IF r.isValid
      THEN UseInstead(r.fix, arg,
             "Flags are always specified with two dashes instead of one dash.")
      ELSE ""

\* the default case: the Error Advisor
InvalidFlag(st, arg) ==
  LET note == IF arg = "-o"
              THEN "Use \"--outfile=\" to configure the output file instead of \"-o\"."
              ELSE IF arg = "-v"
              THEN "Use \"--log-level=verbose\" to generate verbose logs instead of \"-v\"."
              ELSE IF HasPrefix(arg, "--") THEN DoubleDashNote(arg)
              ELSE IF HasPrefix(arg, "-") THEN SingleDashNote(arg)
              ELSE ""
  IN  IF st.b # <<>>
      THEN Fail(st, "Invalid build flag: " \o Quote(arg), note)
      ELSE Fail(st, "Invalid transform flag: " \o Quote(arg), note)

(***************************************************************************)
(* One iteration of "for _, arg := range osArgs": the switch, whose cases  *)
(* are tried in source order.                                              *)
(***************************************************************************)
TrueFalseNote == "Valid values are \"true\" or \"false\"."

parseOptionsImplStep(st, arg, kind, order) ==
  LET B == st.b # <<>>
      T == st.t # <<>>
      P(prefix) == HasPrefix(arg, prefix)
      V(prefix) == SliceFrom(arg, Len(prefix))
  IN
  IF arg = "--bundle" /\ B THEN SetB(st, "Bundle", TRUE)
  ELSE IF arg = "--preserve-symlinks" /\ B THEN SetB(st, "PreserveSymlinks", TRUE)
  ELSE IF arg = "--splitting" /\ B THEN SetB(st, "Splitting", TRUE)
  ELSE IF arg = "--allow-overwrite" /\ B THEN SetB(st, "AllowOverwrite", TRUE)
  ELSE IF arg = "--watch" /\ B THEN SetB(st, "Watch", <<[OnRebuild |-> FALSE]>>)
  ELSE IF arg = "--minify"
  THEN SetEither(SetEither(SetEither(st, "MinifySyntax", TRUE),
                           "MinifyWhitespace", TRUE), "MinifyIdentifiers", TRUE)
  ELSE IF arg = "--minify-syntax" THEN SetEither(st, "MinifySyntax", TRUE)
  ELSE IF arg = "--minify-whitespace" THEN SetEither(st, "MinifyWhitespace", TRUE)
  ELSE IF arg = "--minify-identifiers" THEN SetEither(st, "MinifyIdentifiers", TRUE)
  ELSE IF P("--legal-comments=")
  THEN EnumFlag(st, arg, "--legal-comments=", "LegalComments",
         {"none", "inline", "eof", "linked", "external"},
         "Valid values are \"none\", \"inline\", \"eof\", \"linked\", or \"external\".")
  ELSE IF P("--charset=")
  THEN EnumFlag(st, arg, "--charset=", "Charset", {"ascii", "utf8"},
         "Valid values are \"ascii\" or \"utf8\".")
  ELSE IF P("--tree-shaking=")
  THEN EnumFlag(st, arg, "--tree-shaking=", "TreeShaking", {"false", "true"}, TrueFalseNote)
  ELSE IF arg = "--ignore-annotations" THEN SetEither(st, "IgnoreAnnotations", TRUE)
  ELSE IF arg = "--keep-names" THEN SetEither(st, "KeepNames", TRUE)
  ELSE IF arg = "--sourcemap"
  THEN [(IF B THEN SetB(st, "Sourcemap", "linked") ELSE SetT(st, "Sourcemap", "inline"))
          EXCEPT !.bare = TRUE]
  ELSE IF P("--sourcemap=")
  THEN LET r == EnumFlag(st, arg, "--sourcemap=", "Sourcemap", {"inline", "external", "both"},
                  "Valid values are \"inline\", \"external\", or \"both\".")
       IN  IF r.err # <<>> THEN r ELSE [r EXCEPT !.bare = FALSE]
  ELSE IF P("--source-root=") THEN SetEither(st, "SourceRoot", V("--source-root="))
  ELSE IF P("--sources-content=")
  THEN EnumFlag(st, arg, "--sources-content=", "SourcesContent", {"false", "true"}, TrueFalseNote)
  ELSE IF P("--sourcefile=")
  THEN IF B THEN SetStdin(st, "Sourcefile", V("--sourcefile="))
       ELSE SetT(st, "Sourcefile", V("--sourcefile="))
  ELSE IF P("--resolve-extensions=") /\ B
  THEN SetB(st, "ResolveExtensions", splitWithEmptyCheck(V("--resolve-extensions="), ","))
  ELSE IF P("--main-fields=") /\ B
  THEN SetB(st, "MainFields", splitWithEmptyCheck(V("--main-fields="), ","))
  ELSE IF P("--conditions=") /\ B
  THEN SetB(st, "Conditions", splitWithEmptyCheck(V("--conditions="), ","))
  ELSE IF P("--public-path=") /\ B THEN SetB(st, "PublicPath", V("--public-path="))
  ELSE IF P("--global-name=") THEN SetEither(st, "GlobalName", V("--global-name="))
  ELSE IF arg = "--metafile" /\ B /\ kind = kindExternal THEN SetB(st, "Metafile", TRUE)
  ELSE IF P("--metafile=") /\ B /\ kind = kindInternal
  THEN [SetB(st, "Metafile", TRUE) EXCEPT !.metafile = <<V("--metafile=")>>]
  ELSE IF P("--outfile=") /\ B THEN SetB(st, "Outfile", V("--outfile="))
  ELSE IF P("--outdir=") /\ B THEN SetB(st, "Outdir", V("--outdir="))
  ELSE IF P("--outbase=") /\ B THEN SetB(st, "Outbase", V("--outbase="))
  ELSE IF P("--tsconfig=") /\ B THEN SetB(st, "Tsconfig", V("--tsconfig="))
  ELSE IF P("--tsconfig-raw=") /\ T THEN SetT(st, "TsconfigRaw", V("--tsconfig-raw="))
  ELSE IF P("--entry-names=") /\ B THEN SetB(st, "EntryNames", V("--entry-names="))
  ELSE IF P("--chunk-names=") /\ B THEN SetB(st, "ChunkNames", V("--chunk-names="))
  ELSE IF P("--asset-names=") /\ B THEN SetB(st, "AssetNames", V("--asset-names="))
  ELSE IF P("--define:")
  THEN MapFlag(st, arg, "--define:", "Define",
         "You need to use \"=\" to specify both the original value and the replacement value. "
           \o "For example, \"--define:DEBUG=true\" replaces \"DEBUG\" with \"true\".", TRUE)
  ELSE IF P("--pure:")
  THEN IF B THEN SetB(st, "Pure", append(st.b[1].Pure, V("--pure:")))
       ELSE SetT(st, "Pure", append(st.t[1].Pure, V("--pure:")))
  ELSE IF P("--loader:") /\ B
  THEN LET value == V("--loader:")
           eq    == IndexByte(value, "=")
           ext   == Slice(value, 0, eq)
           text  == SliceFrom(value, eq + 1)
           l     == ParseLoader(text)
       IN  IF eq = -1
           THEN Fail(st, "Missing \"=\" in " \o Quote(arg),
                  "You need to specify the file extension that the loader applies to. "
                    \o "For example, \"--loader:.js=jsx\" applies the \"jsx\" loader to files with the \".js\" extension.")
           ELSE IF ~l.ok THEN Fail(st, l.err.Text, l.err.Note)
           ELSE SetB(st, "Loader", MapPut(st.b[1].Loader, ext, l.loader))
  ELSE IF P("--loader=")
  THEN LET l == ParseLoader(V("--loader="))
       IN  IF ~l.ok THEN Fail(st, l.err.Text, l.err.Note)
           ELSE IF l.loader = "file"
           THEN Fail(st, Quote(arg) \o " is not supported when transforming stdin",
                  "Using esbuild to transform stdin only generates one output file, so you cannot use the \"file\" loader "
                    \o "since that needs to generate two output files.")
           ELSE IF B THEN SetStdin(st, "Loader", l.loader)
           ELSE SetT(st, "Loader", l.loader)
  ELSE IF P("--target=")
  THEN LET r == parseTargets(splitWithEmptyCheck(V("--target="), ","), arg, order)
       IN  IF r.err # <<>> THEN Fail(st, r.err[1].Text, r.err[1].Note)
           ELSE SetEither(SetEither(st, "Target", r.target), "Engines", r.engines)
  ELSE IF P("--out-extension:") /\ B
  THEN MapFlag(st, arg, "--out-extension:", "OutExtensions",
         "You need to use either \"--out-extension:.js=...\" or \"--out-extension:.css=...\" "
           \o "to specify the file type that the output extension applies to .", FALSE)
  ELSE IF P("--platform=") /\ B
  THEN EnumFlag(st, arg, "--platform=", "Platform", {"browser", "node", "neutral"},
         "Valid values are \"browser\", \"node\", or \"neutral\".")
  ELSE IF P("--format=")
  THEN EnumFlag(st, arg, "--format=", "Format", {"iife", "cjs", "esm"},
         "Valid values are \"iife\", \"cjs\", or \"esm\".")
  ELSE IF P("--external:") /\ B
  THEN SetB(st, "External", append(st.b[1].External, V("--external:")))
  ELSE IF P("--inject:") /\ B
  THEN SetB(st, "Inject", append(st.b[1].Inject, V("--inject:")))
  ELSE IF P("--jsx=")
  THEN EnumFlag(st, arg, "--jsx=", "JSXMode", {"transform", "preserve"},
         "Valid values are \"transform\" or \"preserve\".")
  ELSE IF P("--jsx-factory=") THEN SetEither(st, "JSXFactory", V("--jsx-factory="))
  ELSE IF P("--jsx-fragment=") THEN SetEither(st, "JSXFragment", V("--jsx-fragment="))
  ELSE IF P("--banner=") /\ T THEN SetT(st, "Banner", V("--banner="))
  ELSE IF P("--footer=") /\ T THEN SetT(st, "Footer", V("--footer="))
  ELSE IF P("--banner:") /\ B
  THEN MapFlag(st, arg, "--banner:", "Banner",
         "You need to use either \"--banner:js=...\" or \"--banner:css=...\" to specify the language that the banner applies to.",
         FALSE)
  ELSE IF P("--footer:") /\ B
  THEN MapFlag(st, arg, "--footer:", "Footer",
         "You need to use either \"--footer:js=...\" or \"--footer:css=...\" to specify the language that the footer applies to.",
         FALSE)
  ELSE IF P("--log-limit=")
  THEN LET value == V("--log-limit=")
           n     == Atoi(value)
       IN  IF ~n.ok \/ n.v < 0
           THEN Fail(st, "Invalid value " \o Quote(value) \o " in " \o Quote(arg),
                  "The log limit must be a non-negative integer.")
           ELSE SetEither(st, "LogLimit", n.v)
  ELSE IF P("--color=")
  THEN EnumFlag(st, arg, "--color=", "Color", {"false", "true"}, TrueFalseNote)
  ELSE IF P("--log-level=")
  THEN EnumFlag(st, arg, "--log-level=", "LogLevel",
         {"verbose", "debug", "info", "warning", "error", "silent"},
         "Valid values are \"verbose\", \"debug\", \"info\", \"warning\", \"error\", or \"silent\".")
  ELSE IF P("'--")
  THEN Fail(st, "Unexpected single quote character before flag: " \o arg,
         "This typically happens when attempting to use single quotes to quote arguments with a shell that doesn't recognize single quotes. "
           \o "Try using double quote characters to quote arguments instead.")
  ELSE IF ~P("-") /\ B
  THEN LET eq == IndexByte(arg, "=")
       IN  IF eq # -1
           THEN SetB(st, "EntryPointsAdvanced",
                  append(st.b[1].EntryPointsAdvanced,
                    [OutputPath |-> Slice(arg, 0, eq), InputPath |-> SliceFrom(arg, eq + 1)]))
           ELSE SetB(st, "EntryPoints", append(st.b[1].EntryPoints, arg))
  ELSE InvalidFlag(st, arg)

\* the state in which the pass starts
parseOptionsImplStart(b, t) ==
  [b |-> b, t |-> t, bare |-> FALSE, metafile |-> <<>>, err |-> <<>>]

\* a reconciliation that looks at the output file only
parseOptionsImplEndOutfileOnly(st) ==
  IF st.b # <<>> /\ st.bare /\ st.b[1].Outfile = ""
  THEN SetB(st, "Sourcemap", "inline")
  ELSE st

\* after the loop: if we're building, the last source map flag is
\* "--sourcemap", and there is no output path, change the source map option
\* to "inline"
parseOptionsImplEnd(st) ==
  IF st.b # <<>> /\ st.bare /\ st.b[1].Outfile = "" /\ st.b[1].Outdir = ""
  THEN SetB(st, "Sourcemap", "inline")
  ELSE st

RECURSIVE parseOptionsImplFrom(_, _, _, _, _)
\* the loop from the i-th argument on, stopping at the first error
parseOptionsImplFrom(st, osArgs, i, kind, order) ==
  IF i > Len(osArgs) THEN parseOptionsImplEnd(st)
  ELSE LET next == parseOptionsImplStep(st, osArgs[i], kind, order)
       IN  IF next.err # <<>> THEN next
           ELSE parseOptionsImplFrom(next, osArgs, i + 1, kind, order)

parseOptionsImpl(osArgs, b, t, kind, order) ==
  parseOptionsImplFrom(parseOptionsImplStart(b, t), osArgs, 1, kind, order)

(***************************************************************************)
(* parseOptionsForRun                                                      *)
(***************************************************************************)
\* a selector that knows entry points only
IsBuildArgNoBundle(arg) == ~HasPrefix(arg, "-")

\* "If there's an entry point or we're bundling, then we're building"
IsBuildArg(arg) == ~HasPrefix(arg, "-") \/ arg = "--bundle"
SelectsBuild(args) == \E i \in 1..Len(args) : IsBuildArg(args[i])

\* the options the chosen branch makes, with the defaults of the CLI
RunBuildDefaults ==
  [newBuildOptions EXCEPT !.LogLimit = 6, !.LogLevel = "info", !.Write = TRUE]
RunTransformDefaults ==
  [newTransformOptions EXCEPT !.LogLimit = 6, !.LogLevel = "info"]

\* the four values parseOptionsForRun returns
ForRunResult(b, m, t, e) ==
  [buildOptions |-> b, metafile |-> m, transformOptions |-> t, err |-> e]

\* a return that hands the partly bound config back together with the error
parseOptionsForRunReturnKeepsConfig(st) ==
  IF st.err # <<>> THEN ForRunResult(st.b, st.metafile, st.t, st.err)
  ELSE ForRunResult(st.b, st.metafile, st.t, <<>>)

\* a return that lets the "external" source map mode through
parseOptionsForRunReturnAllowsExternal(st) ==
  IF st.err # <<>> THEN ForRunResult(<<>>, <<>>, <<>>, st.err)
  ELSE IF st.b # <<>> THEN ForRunResult(st.b, st.metafile, <<>>, <<>>)
  ELSE IF st.t[1].Sourcemap = "both"
  THEN ForRunResult(<<>>, <<>>, <<>>, <<MakeErrorWithNote(
         "Use \"--sourcemap\" instead of \"--sourcemap=both\" when transforming stdin", "")>>)
  ELSE ForRunResult(<<>>, <<>>, st.t, <<>>)

\* what parseOptionsForRun returns once parseOptionsImpl has returned st
parseOptionsForRunReturn(st) ==
  IF st.b # <<>>
  THEN IF st.err # <<>> THEN ForRunResult(<<>>, <<>>, <<>>, st.err)
       ELSE ForRunResult(st.b, st.metafile, <<>>, <<>>)
  ELSE IF st.err # <<>> THEN ForRunResult(<<>>, <<>>, <<>>, st.err)
  ELSE IF st.t[1].Sourcemap # "none" /\ st.t[1].Sourcemap # "inline"
  THEN LET sourceMapMode == st.t[1].Sourcemap
       IN  ForRunResult(<<>>, <<>>, <<>>, <<MakeErrorWithNote(
             "Use \"--sourcemap\" instead of \"--sourcemap=" \o sourceMapMode
               \o "\" when transforming stdin",
             "Using esbuild to transform stdin only generates one output file, so you cannot use the "
               \o Quote(sourceMapMode) \o " source map mode "
               \o "since that needs to generate two output files.")>>)
  ELSE ForRunResult(<<>>, <<>>, st.t, <<>>)

(***************************************************************************)
(* parseServeOptionsImpl                                                   *)
(***************************************************************************)
LastIndexByte(s, c) ==
  LET hits == {i \in 1..Len(s) : SubSeq(s, i, i) = c}
  IN  IF hits = {} THEN -1
      ELSE (CHOOSE i \in hits : \A j \in hits : i >= j) - 1

\* net.SplitHostPort: [ok, host, port]
SplitHostPort(hostport) ==
  LET i    == LastIndexByte(hostport, ":")
      bad  == [ok |-> FALSE, host |-> "", port |-> ""]
      port == SliceFrom(hostport, i + 1)
  IN  IF i < 0 THEN bad
      ELSE IF SubSeq(hostport, 1, 1) = "["
      THEN LET end == IndexByte(hostport, "]")
               host == Slice(hostport, 1, end)
           IN  IF end < 0 \/ end + 1 # i THEN bad
               ELSE IF ContainsRune(host, "[") \/ ContainsRune(host, "]")
                      \/ ContainsRune(port, "[") \/ ContainsRune(port, "]") THEN bad
               ELSE [ok |-> TRUE, host |-> host, port |-> port]
      ELSE LET host == Slice(hostport, 0, i)
           IN  IF ContainsRune(host, ":") THEN bad
               ELSE IF ContainsRune(hostport, "[") \/ ContainsRune(hostport, "]") THEN bad
               ELSE [ok |-> TRUE, host |-> host, port |-> port]

\* a loop in which the bare flag puts the port text back to its default
FilterServeArgBareResets(acc, arg) ==
  IF arg = "--serve" THEN [acc EXCEPT !.portText = "0"]
  ELSE IF HasPrefix(arg, "--serve=")
  THEN [acc EXCEPT !.portText = SliceFrom(arg, Len("--serve="))]
  ELSE IF HasPrefix(arg, "--servedir=")
  THEN [acc EXCEPT !.servedir = SliceFrom(arg, Len("--servedir="))]
  ELSE [acc EXCEPT !.filteredArgs = Append(@, arg)]

\* one iteration of the loop "Filter out server-specific flags"; acc holds
\* portText, servedir and filteredArgs
FilterServeArg(acc, arg) ==
  IF arg = "--serve" THEN acc
  ELSE IF HasPrefix(arg, "--serve=")
  THEN [acc EXCEPT !.portText = SliceFrom(arg, Len("--serve="))]
  ELSE IF HasPrefix(arg, "--servedir=")
  THEN [acc EXCEPT !.servedir = SliceFrom(arg, Len("--servedir="))]
  ELSE [acc EXCEPT !.filteredArgs = Append(@, arg)]

RECURSIVE FilterServeArgs(_, _)
\* the loop itself, from the argument at the head of args on
FilterServeArgs(args, acc) ==
  IF args = <<>> THEN acc
  ELSE FilterServeArgs(Tail(args), FilterServeArg(acc, Head(args)))

\* uint16(port)
Uint16(n) == n % 65536

\* a parser that converts the port without the range check
parseServeOptionsImplNoRangeCheck(args) ==
  LET f     == FilterServeArgs(args, [portText |-> "0", servedir |-> "", filteredArgs |-> <<>>])
      split == ContainsRune(f.portText, ":")
      hp    == SplitHostPort(f.portText)
      host  == IF split THEN hp.host ELSE ""
      portText == IF split THEN hp.port ELSE f.portText
      port  == ParseInt32(portText)
      bad(text) == [ok |-> FALSE, serveOptions |-> <<>>, filteredArgs |-> <<>>, err |-> text]
  IN  IF split /\ ~hp.ok THEN bad("address " \o f.portText \o ": invalid host:port")
      ELSE IF ~port.ok THEN bad("strconv.ParseInt: parsing " \o Quote(portText) \o ": invalid")
      ELSE [ok |-> TRUE,
            serveOptions |-> <<[Port |-> Uint16(port.v), Host |-> host, Servedir |-> f.servedir]>>,
            filteredArgs |-> f.filteredArgs, err |-> ""]

\* [ok, serveOptions, filteredArgs, err]
parseServeOptionsImpl(args) ==
  LET f     == FilterServeArgs(args, [portText |-> "0", servedir |-> "", filteredArgs |-> <<>>])
      split == ContainsRune(f.portText, ":")
      hp    == SplitHostPort(f.portText)
      host  == IF split THEN hp.host ELSE ""
      portText == IF split THEN hp.port ELSE f.portText
      port  == ParseInt32(portText)
      bad(text) == [ok |-> FALSE, serveOptions |-> <<>>, filteredArgs |-> <<>>, err |-> text]
  IN  IF split /\ ~hp.ok THEN bad("address " \o f.portText \o ": invalid host:port")
      ELSE IF ~port.ok THEN bad("strconv.ParseInt: parsing " \o Quote(portText) \o ": invalid")
      ELSE IF port.v < 0 \/ port.v > 65535 THEN bad("Invalid port number: " \o portText)
      ELSE [ok |-> TRUE,
            serveOptions |-> <<[Port |-> Uint16(port.v), Host |-> host, Servedir |-> f.servedir]>>,
            filteredArgs |-> f.filteredArgs, err |-> ""]

\* the options serveImpl makes before it binds the filtered arguments
ServeBuildDefaults ==
  [newBuildOptions EXCEPT !.LogLimit = 5, !.LogLevel = "info"]

(***************************************************************************)
(* runImpl: the loop that strips the analyze flags and detects serve mode. *)
(* The loop compacts osArgs in place, so a serve flag met after an analyze *)
(* flag hands serveImpl the array as compacted so far.                     *)
(***************************************************************************)
IsServeArg(arg) ==
  arg = "--serve" \/ HasPrefix(arg, "--serve=") \/ HasPrefix(arg, "--servedir=")

RECURSIVE runImplScan(_, _, _, _, _)
runImplScan(arr, i, end, an, verbose) ==
  IF i > Len(arr)
  THEN [serve |-> FALSE, osArgs |-> SubSeq(arr, 1, end), analyze |-> an, analyzeVerbose |-> verbose]
  ELSE LET arg == arr[i]
       IN  IF IsServeArg(arg)
           THEN [serve |-> TRUE, osArgs |-> arr, analyze |-> an, analyzeVerbose |-> verbose]
           ELSE IF arg = "--analyze" THEN runImplScan(arr, i + 1, end, TRUE, FALSE)
           ELSE IF arg = "--analyze=verbose" THEN runImplScan(arr, i + 1, end, TRUE, TRUE)
           ELSE runImplScan([arr EXCEPT ![end + 1] = arg], i + 1, end + 1, an, verbose)

\* logger.PrintErrorToStderr(osArgs, text) and logger.PrintMessageToStderr
ErrorMsg(text) == [Text |-> text, Note |-> ""]

(***************************************************************************)
(* The state of one run of the CLI.                                        *)
(***************************************************************************)
VARIABLES
  argv,             \* the argument list the process was started with
  pc,               \* where the run stands
  osArgs,           \* runImpl's osArgs after its first loop
  analyze,          \* runImpl's analyze and analyzeVerbose
  analyzeVerbose,
  caller,           \* who called parseOptionsImpl: "run" or "serve"
  bindArgs,         \* parseOptionsImpl's osArgs
  bindIdx,          \* the position of its loop
  st,               \* its buildOpts, transformOpts, hasBareSourceMapFlag, results
  buildOptions,     \* runImpl's four locals of line 860
  metafile,
  transformOptions,
  err,
  serveOptions,     \* serveImpl's serveOptions
  writeMetafile,    \* the closure: nil, or what it captured
  engine,           \* the calls made to the external engine, in order, each
                    \* with the number of errors its result reports
  files,            \* the file system: path -> contents
  fsLog,            \* the calls of the closure and of the file system, in order
  stderr,           \* the messages printed to standard error
  stdout,           \* the bytes written to standard output
  exit              \* the status runImpl returned, if it has returned

vars ==
  <<argv, pc, osArgs, analyze, analyzeVerbose, caller, bindArgs, bindIdx, st,
    buildOptions, metafile, transformOptions, err, serveOptions, writeMetafile,
    engine, files, fsLog, stderr, stdout, exit>>

\* the state in which runImpl is entered with the argument list args
Start(args) ==
  /\ argv = args
  /\ pc = "runImpl"
  /\ osArgs = args
  /\ analyze = FALSE
  /\ analyzeVerbose = FALSE
  /\ caller = "none"
  /\ bindArgs = <<>>
  /\ bindIdx = 1
  /\ st = parseOptionsImplStart(<<>>, <<>>)
  /\ buildOptions = <<>>
  /\ metafile = <<>>
  /\ transformOptions = <<>>
  /\ err = <<>>
  /\ serveOptions = <<>>
  /\ writeMetafile = <<>>
  /\ engine = <<>>
  /\ files = EmptyMap
  /\ fsLog = <<>>
  /\ stderr = <<>>
  /\ stdout = ""
  /\ exit = <<>>

\* "return n" of runImpl
Return(n) == pc' = "done" /\ exit' = <<n>>

(***************************************************************************)
(* runImpl, lines 828-858: strip the analyze flags; a serve flag hands the *)
(* run to serveImpl, whose first statement is parseServeOptionsImpl.       *)
(***************************************************************************)
RunScan ==
  /\ pc = "runImpl"
  /\ LET r == runImplScan(argv, 1, 0, FALSE, FALSE)
     IN  /\ osArgs' = r.osArgs
         /\ analyze' = r.analyze
         /\ analyzeVerbose' = r.analyzeVerbose
         /\ pc' = IF r.serve THEN "serveImpl" ELSE "parseOptionsForRun"
  /\ UNCHANGED <<argv, caller, bindArgs, bindIdx, st, buildOptions, metafile,
                 transformOptions, err, serveOptions, writeMetafile, engine,
                 files, fsLog, stderr, stdout, exit>>

\* serveImpl up to its call of parseOptionsImpl; an error of
\* parseServeOptionsImpl is returned to runImpl, which prints it and returns 1
ServeParse ==
  /\ pc = "serveImpl"
  /\ LET r == parseServeOptionsImpl(osArgs)
     IN  IF ~r.ok
         THEN /\ stderr' = Append(stderr, ErrorMsg(r.err))
              /\ Return(1)
              /\ UNCHANGED <<serveOptions, caller, bindArgs, bindIdx, st>>
         ELSE /\ serveOptions' = r.serveOptions
              /\ caller' = "serve"
              /\ bindArgs' = r.filteredArgs
              /\ bindIdx' = 1
              /\ st' = parseOptionsImplStart(<<ServeBuildDefaults>>, <<>>)
              /\ pc' = "bind"
              /\ UNCHANGED <<stderr, exit>>
  /\ UNCHANGED <<argv, osArgs, analyze, analyzeVerbose, buildOptions, metafile,
                 transformOptions, err, writeMetafile, engine, files, fsLog, stdout>>

\* parseOptionsForRun up to its call of parseOptionsImpl: the mode is chosen
\* by a scan of the whole list
SelectMode ==
  /\ pc = "parseOptionsForRun"
  /\ caller' = "run"
  /\ bindArgs' = osArgs
  /\ bindIdx' = 1
  /\ st' = IF SelectsBuild(osArgs)
           THEN parseOptionsImplStart(<<RunBuildDefaults>>, <<>>)
           ELSE parseOptionsImplStart(<<>>, <<RunTransformDefaults>>)
  /\ pc' = "bind"
  /\ UNCHANGED <<argv, osArgs, analyze, analyzeVerbose, buildOptions, metafile,
                 transformOptions, err, serveOptions, writeMetafile, engine,
                 files, fsLog, stderr, stdout, exit>>

\* a loop that records the error and goes on with the next argument
BindArgContinues ==
  /\ pc = "bind"
  /\ bindIdx <= Len(bindArgs)
  /\ \E order \in (IF HasPrefix(bindArgs[bindIdx], "--target=")
                   THEN EngineOrders ELSE {EngineTable}) :
       st' = parseOptionsImplStep(st, bindArgs[bindIdx], kindInternal, order)
  /\ pc' = "bind"
  /\ bindIdx' = bindIdx + 1
  /\ UNCHANGED <<argv, osArgs, analyze, analyzeVerbose, caller, bindArgs,
                 buildOptions, metafile, transformOptions, err, serveOptions,
                 writeMetafile, engine, files, fsLog, stderr, stdout, exit>>

\* one iteration of the loop of parseOptionsImpl; an error returns at once
BindArg ==
  /\ pc = "bind"
  /\ bindIdx <= Len(bindArgs)
  /\ \E order \in (IF HasPrefix(bindArgs[bindIdx], "--target=")
                   THEN EngineOrders ELSE {EngineTable}) :
       LET next == parseOptionsImplStep(st, bindArgs[bindIdx], kindInternal, order)
       IN  /\ st' = next
           /\ IF next.err # <<>>
              THEN pc' = "bound" /\ UNCHANGED bindIdx
              ELSE pc' = "bind" /\ bindIdx' = bindIdx + 1
  /\ UNCHANGED <<argv, osArgs, analyze, analyzeVerbose, caller, bindArgs,
                 buildOptions, metafile, transformOptions, err, serveOptions,
                 writeMetafile, engine, files, fsLog, stderr, stdout, exit>>

\* the end of the loop: the sourcemap reconciliation, then the return
BindEnd ==
  /\ pc = "bind"
  /\ bindIdx > Len(bindArgs)
  /\ st' = parseOptionsImplEnd(st)
  /\ pc' = "bound"
  /\ UNCHANGED <<argv, osArgs, analyze, analyzeVerbose, caller, bindArgs, bindIdx,
                 buildOptions, metafile, transformOptions, err, serveOptions,
                 writeMetafile, engine, files, fsLog, stderr, stdout, exit>>

\* parseOptionsForRun after parseOptionsImpl has returned, and line 860
ForRunReturn ==
  /\ pc = "bound"
  /\ caller = "run"
  /\ LET r == parseOptionsForRunReturn(st)
     IN  /\ buildOptions' = r.buildOptions
         /\ metafile' = r.metafile
         /\ transformOptions' = r.transformOptions
         /\ err' = r.err
  /\ pc' = "dispatch"
  /\ UNCHANGED <<argv, osArgs, analyze, analyzeVerbose, caller, bindArgs, bindIdx,
                 st, serveOptions, writeMetafile, engine, files, fsLog, stderr, stdout,
                 exit>>

\* serveImpl after parseOptionsImpl has returned, up to api.Serve
ServeStart ==
  /\ pc = "bound"
  /\ caller = "serve"
  /\ IF st.err # <<>>
     THEN \* printed by serveImpl, then once more by runImpl
          /\ stderr' = stderr \o <<ErrorMsg(st.err[1].Text), ErrorMsg(st.err[1].Text)>>
          /\ Return(1)
          /\ UNCHANGED engine
     ELSE /\ engine' = Append(engine, [api |-> "Serve", options |-> st.b[1], errors |-> 0,
                                      metafile |-> ""])
          /\ \E failed \in BOOLEAN :
               IF failed
               THEN /\ stderr' = Append(stderr, ErrorMsg("serve error"))
                    /\ Return(1)
               ELSE /\ stderr' = Append(stderr, ErrorMsg("listening"))
                    /\ pc' = "serving"
                    /\ UNCHANGED exit
  /\ UNCHANGED <<argv, osArgs, analyze, analyzeVerbose, caller, bindArgs, bindIdx,
                 st, buildOptions, metafile, transformOptions, err, serveOptions,
                 writeMetafile, files, fsLog, stdout>>

\* "return result.Wait()": the server terminates
ServeWait ==
  /\ pc = "serving"
  /\ \E failed \in BOOLEAN :
       IF failed
       THEN stderr' = Append(stderr, ErrorMsg("serve error")) /\ Return(1)
       ELSE UNCHANGED stderr /\ Return(0)
  /\ UNCHANGED <<argv, osArgs, analyze, analyzeVerbose, caller, bindArgs, bindIdx,
                 st, buildOptions, metafile, transformOptions, err, serveOptions,
                 writeMetafile, engine, files, fsLog, stdout>>

\* what the environment holds for the run
NodePathEnv == {<<>>, <<"/a:/b">>}
StdinContents == "input"

\* a check of the metafile path that forgets the output path
runImplBuildFatalNoOutputCheck(b, mf, readOk, realFSOk, absOk) ==
  LET noEntries == Len(b.EntryPoints) + Len(b.EntryPointsAdvanced) = 0
  IN  IF noEntries /\ ~readOk
      THEN <<"Could not read from stdin: error">>
      ELSE IF ~noEntries /\ b.Stdin # <<>>
      THEN <<"\"sourcefile\" only applies when reading from stdin">>
      ELSE IF mf # <<>> /\ realFSOk /\ ~absOk
      THEN <<"Invalid metafile path: " \o mf[1]>>
      ELSE <<>>

\* a check that lets entry points and stdin-only flags go together
runImplBuildFatalNoStdinCheck(b, mf, readOk, realFSOk, absOk) ==
  LET noEntries == Len(b.EntryPoints) + Len(b.EntryPointsAdvanced) = 0
  IN  IF noEntries /\ ~readOk
      THEN <<"Could not read from stdin: error">>
      ELSE IF mf # <<>> /\ b.Outfile = "" /\ b.Outdir = ""
      THEN <<"Cannot use \"metafile\" without an output path">>
      ELSE IF mf # <<>> /\ realFSOk /\ ~absOk
      THEN <<"Invalid metafile path: " \o mf[1]>>
      ELSE <<>>

\* the fatal conditions runImpl checks before api.Build, in source order:
\* <<>> when there is none, else the message printed before "return 1"
runImplBuildFatal(b, mf, readOk, realFSOk, absOk) ==
  LET noEntries == Len(b.EntryPoints) + Len(b.EntryPointsAdvanced) = 0
  IN  IF noEntries /\ ~readOk
      THEN <<"Could not read from stdin: error">>
      ELSE IF ~noEntries /\ b.Stdin # <<>>
      THEN IF b.Stdin[1].Sourcefile # ""
           THEN <<"\"sourcefile\" only applies when reading from stdin">>
           ELSE <<"\"loader\" without extension only applies when reading from stdin">>
      ELSE IF mf # <<>> /\ b.Outfile = "" /\ b.Outdir = ""
      THEN <<"Cannot use \"metafile\" without an output path">>
      ELSE IF mf # <<>> /\ realFSOk /\ ~absOk
      THEN <<"Invalid metafile path: " \o mf[1]>>
      ELSE <<>>

\* runImpl, case buildOptions != nil, up to the call of api.Build: NODE_PATH,
\* stdin, and the validation of the metafile path
RunBuildPrepare ==
  /\ pc = "dispatch"
  /\ buildOptions # <<>>
  /\ \E nodePath \in NodePathEnv, readOk \in BOOLEAN, realFSOk \in BOOLEAN, absOk \in BOOLEAN :
       LET b0 == buildOptions[1]
           b1 == IF nodePath = <<>> THEN b0
                 ELSE [b0 EXCEPT !.NodePaths = splitWithEmptyCheck(nodePath[1], ":")]
           noEntries == Len(b1.EntryPoints) + Len(b1.EntryPointsAdvanced) = 0
           stdin == IF b1.Stdin = <<>> THEN newStdinOptions ELSE b1.Stdin[1]
           b2 == IF noEntries
                 THEN [b1 EXCEPT !.Stdin = <<[stdin EXCEPT !.Contents = StdinContents,
                                                            !.ResolveDir = "/cwd"]>>]
                 ELSE b1
           b3 == IF metafile # <<>> /\ b2.Watch # <<>>
                 THEN [b2 EXCEPT !.Watch = <<[OnRebuild |-> TRUE]>>] ELSE b2
           b4 == IF analyze THEN [b3 EXCEPT !.Metafile = TRUE] ELSE b3
           fatal == runImplBuildFatal(b1, metafile, readOk, realFSOk, absOk)
           \* what the options hold when runImpl returns early: stdin options
           \* are made before the read, their contents set after it
           bFail == IF noEntries /\ ~readOk THEN [b1 EXCEPT !.Stdin = <<stdin>>]
                    ELSE b2
       IN  IF fatal # <<>>
           THEN /\ stderr' = Append(stderr, ErrorMsg(fatal[1]))
                /\ Return(1)
                /\ buildOptions' = <<bFail>>
                /\ UNCHANGED writeMetafile
           ELSE /\ buildOptions' = <<b4>>
                /\ writeMetafile' =
                     IF metafile = <<>> THEN <<>>
                     ELSE <<[realFSErr |-> ~realFSOk,
                             metafileAbsPath |-> IF realFSOk THEN "/cwd/" \o metafile[1] ELSE "",
                             metafileAbsDir |-> IF realFSOk THEN "/cwd" ELSE ""]>>
                /\ pc' = "build"
                /\ UNCHANGED <<stderr, exit>>
  /\ UNCHANGED <<argv, osArgs, analyze, analyzeVerbose, caller, bindArgs, bindIdx,
                 st, metafile, transformOptions, err, serveOptions, engine, files, fsLog,
                 stdout>>

\* the metafile the engine returns: empty unless one was asked for
MetafileJSON == "{}"

\* a status that does not look at the errors of the engine
ExitStatusIgnoresErrors(errors) == 0

\* "if len(result.Errors) > 0 { return 1 }", else the "return 0" of line 1023
ExitStatus(errors) == IF errors > 0 THEN 1 ELSE 0

\* the records of fsLog: a call of the closure, and the two file system calls
\* it makes
ClosureCall(json) == [op |-> "writeMetafile", path |-> "", data |-> json, ok |-> TRUE]

MkdirAll(dir, ok) == [op |-> "MkdirAll", path |-> dir, data |-> "", ok |-> ok]

WriteFile(path, data, ok) == [op |-> "WriteFile", path |-> path, data |-> data, ok |-> ok]

\* a closure that goes on to write the file after a failed MkdirAll
writeMetafileCallWritesAnyway(wm, json, mkdirOk, writeOk, fs) ==
  IF json = "" \/ wm.realFSErr
  THEN [report |-> <<>>, files |-> fs, log |-> <<ClosureCall(json)>>]
  ELSE [report |-> (IF mkdirOk THEN <<>>
                    ELSE <<ErrorMsg("Failed to create output directory: error")>>)
                   \o (IF writeOk THEN <<>>
                       ELSE <<ErrorMsg("Failed to write to output file: error")>>),
        files |-> IF writeOk THEN MapPut(fs, wm.metafileAbsPath, json) ELSE fs,
        log |-> <<ClosureCall(json), MkdirAll(wm.metafileAbsDir, mkdirOk),
                  WriteFile(wm.metafileAbsPath, json, writeOk)>>]

\* the closure writeMetafile called with json: what it prints, the file
\* system it leaves and the calls it makes.  wm is what the closure captured.
writeMetafileCall(wm, json, mkdirOk, writeOk, fs) ==
  IF json = "" \/ wm.realFSErr
  THEN [report |-> <<>>, files |-> fs, log |-> <<ClosureCall(json)>>]
  ELSE IF ~mkdirOk
  THEN [report |-> <<ErrorMsg("Failed to create output directory: error")>>, files |-> fs,
        log |-> <<ClosureCall(json), MkdirAll(wm.metafileAbsDir, FALSE)>>]
  ELSE IF ~writeOk
  THEN [report |-> <<ErrorMsg("Failed to write to output file: error")>>, files |-> fs,
        log |-> <<ClosureCall(json), MkdirAll(wm.metafileAbsDir, TRUE),
                  WriteFile(wm.metafileAbsPath, json, FALSE)>>]
  ELSE [report |-> <<>>, files |-> MapPut(fs, wm.metafileAbsPath, json),
        log |-> <<ClosureCall(json), MkdirAll(wm.metafileAbsDir, TRUE),
                  WriteFile(wm.metafileAbsPath, json, TRUE)>>]

\* a run that goes on to its exit status in watch mode as well
WatchWaitNever(b) == FALSE

\* "if buildOptions.Watch != nil { <-make(chan bool) }": runImpl waits on a
\* channel that nothing ever sends on
WatchWait(b) == b.Watch # <<>>

\* fs.RealFS failed when the closure was made.  "Don't fail in this case
\* since the error will be reported by api.Build", and a build that reports
\* the error makes no metafile ("Don't write out the metafile on build errors")
FSUnavailable == writeMetafile # <<>> /\ writeMetafile[1].realFSErr

\* the error counts and the metafiles a build can come back with; json is the
\* metafile of a build that makes one
EngineErrors == IF FSUnavailable THEN {1} ELSE {0, 1}

EngineMetafiles(json) ==
  IF buildOptions[1].Metafile /\ ~FSUnavailable THEN {"", json} ELSE {""}

\* the call of api.Build and its result
RunBuildEngine ==
  /\ pc = "build"
  /\ \E errors \in EngineErrors, json \in EngineMetafiles(MetafileJSON) :
       engine' = Append(engine, [api |-> "Build", options |-> buildOptions[1],
                                 errors |-> errors, metafile |-> json])
  /\ pc' = "built"
  /\ UNCHANGED <<argv, osArgs, analyze, analyzeVerbose, caller, bindArgs, bindIdx,
                 st, buildOptions, metafile, transformOptions, err, serveOptions,
                 writeMetafile, files, fsLog, stderr, stdout, exit>>

\* the result of the call of api.Build
BuildResult == engine[CHOOSE i \in 1..Len(engine) : engine[i].api = "Build"]

\* runImpl after api.Build has returned: the analysis, the metafile write,
\* the watch-mode wait and the exit status
RunBuildFinish ==
  /\ pc = "built"
  /\ \E mkdirOk \in BOOLEAN, writeOk \in BOOLEAN :
       LET analysis == IF analyze THEN <<ErrorMsg("analysis")>> ELSE <<>>
           w == IF writeMetafile = <<>>
                THEN [report |-> <<>>, files |-> files, log |-> <<>>]
                ELSE writeMetafileCall(writeMetafile[1], BuildResult.metafile,
                                       mkdirOk, writeOk, files)
       IN  /\ stderr' = stderr \o analysis \o w.report
           /\ files' = w.files
           /\ fsLog' = fsLog \o w.log
  /\ IF WatchWait(buildOptions[1])
     THEN pc' = "blocked" /\ UNCHANGED exit
     ELSE Return(ExitStatus(BuildResult.errors))
  /\ UNCHANGED <<argv, osArgs, analyze, analyzeVerbose, caller, bindArgs, bindIdx,
                 st, buildOptions, metafile, transformOptions, err, serveOptions,
                 writeMetafile, engine, stdout>>

\* the metafile a rebuild returns
RebuiltJSON == "{rebuilt}"

\* the engine rebuilds in watch mode, from its own goroutine, at any time
\* after api.Build has returned, and calls OnRebuild when it is registered:
\* "writeMetafile(result.Metafile)"
Rebuild ==
  /\ pc \in {"built", "blocked"}
  /\ buildOptions[1].Watch # <<>>
  /\ Cardinality({i \in 1..Len(engine) : engine[i].api = "Rebuild"}) < MaxRebuilds
  /\ \E errors \in EngineErrors, json \in EngineMetafiles(RebuiltJSON),
        mkdirOk \in BOOLEAN, writeOk \in BOOLEAN :
       LET w == IF buildOptions[1].Watch[1].OnRebuild
                THEN writeMetafileCall(writeMetafile[1], json, mkdirOk, writeOk, files)
                ELSE [report |-> <<>>, files |-> files, log |-> <<>>]
       IN  /\ engine' = Append(engine, [api |-> "Rebuild", options |-> buildOptions[1],
                                        errors |-> errors, metafile |-> json])
           /\ stderr' = stderr \o w.report
           /\ files' = w.files
           /\ fsLog' = fsLog \o w.log
  /\ UNCHANGED <<argv, pc, osArgs, analyze, analyzeVerbose, caller, bindArgs, bindIdx,
                 st, buildOptions, metafile, transformOptions, err, serveOptions,
                 writeMetafile, stdout, exit>>

\* runImpl, case transformOptions != nil
RunTransform ==
  /\ pc = "dispatch"
  /\ buildOptions = <<>>
  /\ transformOptions # <<>>
  /\ \E readOk \in BOOLEAN, errors \in {0, 1} :
       IF ~readOk
       THEN /\ stderr' = Append(stderr, ErrorMsg("Could not read from stdin: error"))
            /\ Return(1)
            /\ UNCHANGED <<engine, stdout>>
       ELSE /\ engine' = Append(engine, [api |-> "Transform", options |-> transformOptions[1],
                                    errors |-> errors, metafile |-> ""])
            /\ UNCHANGED stderr
            /\ Return(ExitStatus(errors))
            /\ stdout' = IF errors > 0 THEN stdout ELSE stdout \o "code"
  /\ UNCHANGED <<argv, osArgs, analyze, analyzeVerbose, caller, bindArgs, bindIdx,
                 st, buildOptions, metafile, transformOptions, err, serveOptions,
                 writeMetafile, files, fsLog>>

\* runImpl, case err != nil: the message and, when there is one, its note
RunFlagError ==
  /\ pc = "dispatch"
  /\ buildOptions = <<>>
  /\ transformOptions = <<>>
  /\ err # <<>>
  /\ stderr' = Append(stderr, [Text |-> err[1].Text, Note |-> err[1].Note])
  /\ Return(1)
  /\ UNCHANGED <<argv, osArgs, analyze, analyzeVerbose, caller, bindArgs, bindIdx,
                 st, buildOptions, metafile, transformOptions, err, serveOptions,
                 writeMetafile, engine, files, fsLog, stdout>>

Next ==
  \/ RunScan
  \/ ServeParse
  \/ SelectMode
  \/ BindArg
  \/ BindEnd
  \/ ForRunReturn
  \/ ServeStart
  \/ ServeWait
  \/ RunBuildPrepare
  \/ RunBuildEngine
  \/ RunBuildFinish
  \/ Rebuild
  \/ RunTransform
  \/ RunFlagError

(***************************************************************************)
(* Argument lists.                                                         *)
(***************************************************************************)
RECURSIVE SeqsUpTo(_, _)
\* every sequence over S of length at most n
SeqsUpTo(S, n) ==
  IF n = 0 THEN {<<>>}
  ELSE LET shorter == SeqsUpTo(S, n - 1)
       IN  shorter \cup {Append(q, x) : q \in shorter, x \in S}

\* a pool that reaches every branch of the run: build and transform mode,
\* serve mode, rejected flags, the analyze flags, stdin-only flags, metafile
BasePool ==
  {"a.js", "--bundle", "--minify-syntax", "--bogus", "--serve=8000",
   "--serve=70000", "--analyze", "--sourcefile=s.js", "--metafile=m.json",
   "--outfile=o.js", "--sourcemap=external", "--watch"}

Init == \E args \in SeqsUpTo(BasePool, MaxArgs) : Start(args)

Spec == Init /\ [][Next]_vars

(***************************************************************************)
(* Mode selection.                                                         *)
(***************************************************************************)
ModePool ==
  {"a.js", "", "-", "--bundle", "--bundled", "-bundle", "--minify-syntax",
   "--serve", "--analyze", "--watch"}

InitMode == \E args \in SeqsUpTo(ModePool, MaxArgs) : Start(args)
SpecMode == InitMode /\ [][Next]_vars

\* the first byte of arg is not a dash, or arg is the bundling flag
LooksLikeBuild(arg) == arg = "" \/ SubSeq(arg, 1, 1) # "-" \/ arg = "--bundle"

\* C1: in parseOptionsForRun, from the first bound flag to the values handed
\* to runImpl, the Build config exists if and only if some argument does not
\* start with "-" or is exactly "--bundle", the Transform config exists if
\* and only if no argument does, and the config of the other mode is never
\* made, so the binder has nothing else to write into.
C1_ModeSelection ==
  LET build == \E i \in 1..Len(osArgs) : LooksLikeBuild(osArgs[i])
  IN  /\ (caller = "run" /\ pc \in {"bind", "bound"}) =>
           /\ (st.b # <<>>) <=> build
           /\ (st.t # <<>>) <=> ~build
           /\ st.b # <<>> => st.b[1].Write
      /\ pc \in {"dispatch", "build", "built"} =>
           /\ buildOptions # <<>> => build
           /\ transformOptions # <<>> => ~build
           /\ (buildOptions = <<>> /\ transformOptions = <<>>) =>
                (st.b # <<>> <=> build)

\* "--minify-syntax" alone is transformed, with MinifySyntax set
C1_Witness ==
  /\ pc = "dispatch"
  /\ osArgs = <<"--minify-syntax">>
  /\ transformOptions # <<>>
  /\ transformOptions[1].MinifySyntax
  /\ buildOptions = <<>>

(***************************************************************************)
(* The values parseOptionsForRun returns.                                  *)
(***************************************************************************)
NonNil(p) == IF p # <<>> THEN 1 ELSE 0

\* C2: when parseOptionsForRun has returned, exactly one of the Build
\* config, the Transform config and the error is non-nil, and with the error
\* both configs and the metafile path are nil.
C2_ExactlyOneResult ==
  pc = "dispatch" =>
    /\ NonNil(buildOptions) + NonNil(transformOptions) + NonNil(err) = 1
    /\ err # <<>> => (buildOptions = <<>> /\ transformOptions = <<>> /\ metafile = <<>>)
    /\ metafile # <<>> => buildOptions # <<>>

\* the pass had set the metafile flag when a later argument was rejected
C2_Witness ==
  /\ pc = "dispatch"
  /\ err # <<>>
  /\ st.b # <<>>
  /\ st.b[1].Metafile
  /\ buildOptions = <<>>
  /\ metafile = <<>>

(***************************************************************************)
(* The binder stops at the first failure.                                  *)
(***************************************************************************)
ErrPool ==
  {"a.js", "--minify", "--bogus", "--charset=latin1", "--define:X",
   "--target=chrome", "--outfile=o.js", "--serve=8000", "--log-limit=-1", "-v",
   "--watch"}

InitErrors == \E args \in SeqsUpTo(ErrPool, MaxArgs) : Start(args)
SpecErrors == InitErrors /\ [][Next]_vars

\* the binder's verdict on arg alone, in the mode of the running pass
AloneIn(b, t, arg) ==
  parseOptionsImplStep(parseOptionsImplStart(b, t), arg, kindInternal, EngineTable)

RECURSIVE ApplyAll(_, _)
\* the arguments of args applied in order, none of them rejected
ApplyAll(s0, args) ==
  IF args = <<>> THEN s0
  ELSE ApplyAll(parseOptionsImplStep(s0, Head(args), kindInternal, EngineTable), Tail(args))

\* C3: when the binder has returned an error, its loop stands at the
\* leftmost argument the binder rejects, the error is the one of that
\* argument, and the config holds the arguments to its left and nothing of
\* the arguments to its right.
C3_FirstFailureOnly ==
  (pc # "bind" /\ st.err # <<>>) =>
    LET fresh    == IF caller = "serve" THEN ServeBuildDefaults ELSE RunBuildDefaults
        b0       == IF st.b # <<>> THEN <<fresh>> ELSE <<>>
        t0       == IF st.t # <<>> THEN <<RunTransformDefaults>> ELSE <<>>
        rejected == {i \in 1..Len(bindArgs) : AloneIn(b0, t0, bindArgs[i]).err # <<>>}
        k        == CHOOSE i \in rejected : \A j \in rejected : i <= j
        left     == ApplyAll(parseOptionsImplStart(b0, t0), SubSeq(bindArgs, 1, k - 1))
    IN  /\ rejected # {}
        /\ bindIdx = k
        /\ st.err = AloneIn(b0, t0, bindArgs[k]).err
        /\ st.b = left.b
        /\ st.t = left.t

\* two rejected arguments, the first after an accepted one
C3_Witness ==
  /\ pc = "bound"
  /\ bindArgs = <<"a.js", "--charset=latin1", "--bogus">>
  /\ st.err # <<>>
  /\ st.err[1].Text = "Invalid value \"latin1\" in \"--charset=latin1\""
  /\ st.b[1].EntryPoints = <<"a.js">>

(***************************************************************************)
(* No engine call after a validation failure.                              *)
(***************************************************************************)
Printed(text) == \E i \in 1..Len(stderr) : HasPrefix(stderr[i].Text, text)

\* a validation failure has occurred in this run
ValidationFailed ==
  \* an invalid flag or an incompatible Transform sourcemap mode
  \/ err # <<>>
  \* an invalid flag in serve mode
  \/ caller = "serve" /\ pc # "bind" /\ st.err # <<>>
  \* entry points combined with stdin-only flags
  \/ /\ pc \in {"dispatch", "build", "built", "blocked", "done"}
     /\ buildOptions # <<>>
     /\ Len(buildOptions[1].EntryPoints) + Len(buildOptions[1].EntryPointsAdvanced) > 0
     /\ buildOptions[1].Stdin # <<>>
  \* a metafile request without an output path
  \/ /\ pc \in {"dispatch", "build", "built", "blocked", "done"}
     /\ metafile # <<>>
     /\ buildOptions[1].Outfile = ""
     /\ buildOptions[1].Outdir = ""
  \* a metafile path that does not resolve, a stdin read failure
  \/ Printed("Invalid metafile path")
  \/ Printed("Could not read from stdin")
  \* an invalid serve host:port
  \/ Printed("Invalid port number")
  \/ Printed("strconv.ParseInt")
  \/ Printed("address ")

\* C4: in a run in which a validation failure occurred the external engine
\* is never invoked, and the status runImpl returns is 1.
C4_NoEngineAfterValidationFailure ==
  ValidationFailed =>
    /\ engine = <<>>
    /\ pc \notin {"build", "built", "blocked", "serving"}
    /\ pc = "done" => exit = <<1>>

\* a metafile request without an output path has made runImpl return 1
C4_Witness ==
  /\ pc = "done"
  /\ exit = <<1>>
  /\ engine = <<>>
  /\ metafile # <<>>
  /\ buildOptions # <<>>
  /\ buildOptions[1].Outfile = ""
  /\ Printed("Cannot use \"metafile\" without an output path")

(***************************************************************************)
(* Sourcemap flags.                                                        *)
(***************************************************************************)
SourcemapPool ==
  {"a.js", "--minify", "--sourcemap", "--sourcemap=inline", "--sourcemap=external",
   "--sourcemap=both", "--outfile=o.js", "--outfile=", "--outdir=d", "--serve",
   "--watch"}

InitSourcemap == \E args \in SeqsUpTo(SourcemapPool, MaxArgs) : Start(args)
SpecSourcemap == InitSourcemap /\ [][Next]_vars

IsSourcemapFlag(arg) == arg = "--sourcemap" \/ HasPrefix(arg, "--sourcemap=")
SourcemapFlags(args) == {i \in 1..Len(args) : IsSourcemapFlag(args[i])}
\* the last sourcemap flag of args, which has one
LastSourcemapFlag(args) ==
  args[CHOOSE i \in SourcemapFlags(args) : \A j \in SourcemapFlags(args) : i >= j]

\* the mode a Build config must end with, given its output paths
ReconciledMode(args, b) ==
  IF SourcemapFlags(args) = {} THEN "none"
  ELSE IF LastSourcemapFlag(args) = "--sourcemap"
  THEN IF b.Outfile = "" /\ b.Outdir = "" THEN "inline" ELSE "linked"
  ELSE SliceFrom(LastSourcemapFlag(args), Len("--sourcemap="))

\* C5: after a successful pass in Build mode, when the last sourcemap flag
\* is the bare "--sourcemap" the mode is inline if Outfile and Outdir are
\* both empty and linked otherwise, wherever the output flags stand; when
\* it is "--sourcemap=<mode>" the mode is <mode>.
C5_SourcemapReconciliation ==
  /\ (pc = "bound" /\ st.err = <<>> /\ st.b # <<>>) =>
       st.b[1].Sourcemap = ReconciledMode(bindArgs, st.b[1])
  /\ (pc \in {"dispatch", "build", "built"} /\ buildOptions # <<>>) =>
       buildOptions[1].Sourcemap = ReconciledMode(bindArgs, buildOptions[1])

\* the output directory is given after the bare flag: linked
C5_Witness ==
  /\ pc = "bound"
  /\ st.err = <<>>
  /\ bindArgs = <<"a.js", "--sourcemap", "--outdir=d">>
  /\ st.b[1].Sourcemap = "linked"
  /\ st.b[1].Outfile = ""

\* the message that recommends the bare flag instead of flag
RecommendsBare(flag) ==
  "Use \"--sourcemap\" instead of " \o Quote(flag) \o " when transforming stdin"

TwoFileFlag(args) ==
  /\ SourcemapFlags(args) # {}
  /\ LastSourcemapFlag(args) \in {"--sourcemap=external", "--sourcemap=both"}

\* C6 as stated: in Transform mode a parse whose last sourcemap flag is
\* "--sourcemap=external" or "--sourcemap=both" returns an error that
\* recommends the bare "--sourcemap", and a returned Transform config has
\* sourcemap mode none or inline.
C6_AsStated ==
  (pc = "dispatch" /\ st.t # <<>>) =>
    /\ TwoFileFlag(osArgs) =>
         /\ err # <<>>
         /\ err[1].Text = RecommendsBare(LastSourcemapFlag(osArgs))
    /\ transformOptions # <<>> => transformOptions[1].Sourcemap \in {"none", "inline"}

\* C6 amended: in Transform mode a parse whose last sourcemap flag is
\* "--sourcemap=external" or "--sourcemap=both" is fatal; the error is the
\* one that recommends the bare "--sourcemap" unless the binder rejected an
\* argument, whose error is returned instead; a returned Transform config
\* has sourcemap mode none or inline.
C6_TransformSourcemap ==
  (pc = "dispatch" /\ st.t # <<>>) =>
    /\ TwoFileFlag(osArgs) =>
         /\ err # <<>>
         /\ transformOptions = <<>>
         /\ IF st.err = <<>>
            THEN err[1].Text = RecommendsBare(LastSourcemapFlag(osArgs))
            ELSE err = st.err
    /\ transformOptions # <<>> => transformOptions[1].Sourcemap \in {"none", "inline"}

\* every argument was accepted and the external mode made the parse fail
C6_Witness ==
  /\ pc = "dispatch"
  /\ osArgs = <<"--minify", "--sourcemap=external">>
  /\ st.err = <<>>
  /\ err # <<>>
  /\ err[1].Text = "Use \"--sourcemap\" instead of \"--sourcemap=external\" when transforming stdin"
  /\ transformOptions = <<>>

(***************************************************************************)
(* Target resolution.                                                      *)
(***************************************************************************)
MaxTokens == 3

TargetTokens == {"es2018", "ES6", "chrome80", "edge16", "chrome", "bogus"}

TargetFlags ==
  {"--target=" \o Join(toks, ",") : toks \in SeqsUpTo(TargetTokens, MaxTokens)}

\* the arguments that stand before the target flag
TargetPrefixes ==
  {<<>>, <<"a.js">>, <<"--serve">>, <<"a.js", "--target=es5,node10">>,
   <<"a.js", "--watch">>}

InitTargets == \E pre \in TargetPrefixes, t \in TargetFlags : Start(pre \o <<t>>)
SpecTargets == InitTargets /\ [][Next]_vars

BaselineNames ==
  {"esnext", "es5", "es6", "es2015", "es2016", "es2017", "es2018", "es2019",
   "es2020", "es2021"}
EngineNames == {"chrome", "firefox", "safari", "edge", "node", "ios"}

IsBaselineToken(tok) == ToLower(tok) \in BaselineNames
EnginesOfToken(tok) == {e \in EngineNames : HasPrefix(tok, e)}
IsEngineToken(tok) ==
  ~IsBaselineToken(tok) /\ \E e \in EnginesOfToken(tok) : Len(tok) > Len(e)
ValidToken(tok) == IsBaselineToken(tok) \/ IsEngineToken(tok)

TokensOf(flag) == splitWithEmptyCheck(SliceFrom(flag, Len("--target=")), ",")
TargetFlagsIn(args) == {i \in 1..Len(args) : HasPrefix(args[i], "--target=")}

\* the baseline named by the last baseline token of toks
ExpectedBaseline(toks) ==
  LET bs == {i \in 1..Len(toks) : IsBaselineToken(toks[i])}
  IN  IF bs = {} THEN "default"
      ELSE LET last == ToLower(toks[CHOOSE i \in bs : \A j \in bs : i >= j])
           IN  IF last = "es6" THEN "es2015" ELSE last

\* one (engine, version) pair per engine token of toks, in token order
ExpectedEngines(toks) ==
  LET es == SelectSeq(toks, IsEngineToken)
  IN  [i \in 1..Len(es) |->
        LET e == CHOOSE e \in EnginesOfToken(es[i]) : TRUE
        IN  [Name |-> e, Version |-> SliceFrom(es[i], Len(e))]]

\* the config the binder is filling
Bound == IF st.b # <<>> THEN st.b[1] ELSE st.t[1]

\* C7: when every token of a target flag is valid the flag is accepted, and
\* once it is bound the baseline is the one of its last baseline token and
\* the engine list holds one pair per engine token in token order, whatever
\* the interleaving of the tokens and whatever the iteration order over the
\* engine table.
C7_TargetResolution ==
  \A i \in TargetFlagsIn(bindArgs) :
    LET toks == TokensOf(bindArgs[i])
    IN  (\A n \in 1..Len(toks) : ValidToken(toks[n])) =>
          /\ (pc # "bind" /\ st.err # <<>>) => bindIdx # i
          /\ (pc = "bind" /\ bindIdx = i + 1) =>
               /\ Bound.Target = ExpectedBaseline(toks)
               /\ Bound.Engines = ExpectedEngines(toks)

\* an engine token before the baseline tokens, of which the last wins
C7_Witness ==
  /\ pc = "bind"
  /\ bindArgs = <<"--target=chrome80,es2018,ES6">>
  /\ bindIdx = 2
  /\ st.t[1].Target = "es2015"
  /\ st.t[1].Engines = <<[Name |-> "chrome", Version |-> "80"]>>

\* C8: a target flag with a token that is an engine name without a version,
\* or that is neither a baseline nor an engine prefix, is never passed by
\* the binder; when the binder fails on it the baseline and the engine list
\* are those the arguments before the flag left, and the parse returns the
\* error alone and the engine is not called.
C8_InvalidTargetFatal ==
  \A i \in TargetFlagsIn(bindArgs) :
    LET toks  == TokensOf(bindArgs[i])
        mode0 == parseOptionsImplStart(
                   IF st.b # <<>> THEN <<newBuildOptions>> ELSE <<>>,
                   IF st.t # <<>> THEN <<newTransformOptions>> ELSE <<>>)
        left  == ApplyAll(mode0, SubSeq(bindArgs, 1, i - 1))
        leftc == IF left.b # <<>> THEN left.b[1] ELSE left.t[1]
    IN  (\E n \in 1..Len(toks) : ~ValidToken(toks[n])) =>
          /\ pc = "bind" => bindIdx <= i
          /\ pc \in {"bound", "dispatch", "done"} => st.err # <<>>
          /\ (pc = "bound" /\ bindIdx = i) =>
               /\ Bound.Target = leftc.Target
               /\ Bound.Engines = leftc.Engines
          /\ pc = "dispatch" =>
               (err # <<>> /\ buildOptions = <<>> /\ transformOptions = <<>>)
          /\ pc \notin {"build", "built", "blocked", "serving"}
          /\ engine = <<>>

\* the engine name without a version stands last, after two valid tokens
C8_Witness ==
  /\ pc = "bound"
  /\ bindArgs = <<"a.js", "--target=es2018,chrome80,chrome">>
  /\ bindIdx = 2
  /\ st.err # <<>>
  /\ st.err[1].Text = "Target \"chrome\" is missing a version number in \"--target=es2018,chrome80,chrome\""
  /\ st.b[1].Target = "default"
  /\ st.b[1].Engines = <<>>

(***************************************************************************)
(* Map-typed and list-typed fields.                                        *)
(***************************************************************************)
MapPool ==
  {"a.js", "--define:K=1", "--define:K=2", "--define:L=a=b",
   "--loader:.txt=text", "--loader:.txt=json", "--banner:js=x", "--banner:js=y",
   "--footer:js=z", "--out-extension:.js=.mjs", "--out-extension:.js=.cjs",
   "--serve", "--watch"}

InitMaps == \E args \in SeqsUpTo(MapPool, MaxArgs) : Start(args)
SpecMaps == InitMaps /\ [][Next]_vars

\* the payload of a flag that starts with prefix
PayloadOf(arg, prefix) == SubSeq(arg, Len(prefix) + 1, Len(arg))
\* the flags of args that start with prefix, in order
FlagsWith(args, prefix) == SelectSeq(args, LAMBDA a : HasPrefix(a, prefix))
\* key and value of a payload, split at its first "="
FirstEquals(text) == CHOOSE i \in 1..Len(text) :
                       /\ SubSeq(text, i, i) = "="
                       /\ \A j \in 1..(i - 1) : SubSeq(text, j, j) # "="
KeyOf(text) == SubSeq(text, 1, FirstEquals(text) - 1)
ValueOf(text) == SubSeq(text, FirstEquals(text) + 1, Len(text))

\* key -> the value of the last flag with prefix that assigns the key
LastAssignments(args, prefix) ==
  LET ps   == [i \in 1..Len(FlagsWith(args, prefix)) |->
                PayloadOf(FlagsWith(args, prefix)[i], prefix)]
      keys == {KeyOf(ps[i]) : i \in 1..Len(ps)}
  IN  [k \in keys |->
        LET is == {i \in 1..Len(ps) : KeyOf(ps[i]) = k}
        IN  ValueOf(ps[CHOOSE i \in is : \A j \in is : i >= j])]

\* C9: after a successful pass each of define, loader, banner, footer and
\* out-extension maps exactly the keys its flags assign, each to the value
\* of the last flag of the list that assigns it, key and value being split
\* at the first "=" of the payload.  (Transform mode has the define map
\* only.)
C9_MapsLastWins ==
  (pc = "bound" /\ st.err = <<>>) =>
    /\ Bound.Define = LastAssignments(bindArgs, "--define:")
    /\ st.b # <<>> =>
         /\ st.b[1].Loader = LastAssignments(bindArgs, "--loader:")
         /\ st.b[1].Banner = LastAssignments(bindArgs, "--banner:")
         /\ st.b[1].Footer = LastAssignments(bindArgs, "--footer:")
         /\ st.b[1].OutExtensions = LastAssignments(bindArgs, "--out-extension:")

\* the loader of ".txt" is assigned twice
C9_Witness ==
  /\ pc = "bound"
  /\ st.err = <<>>
  /\ bindArgs = <<"a.js", "--loader:.txt=text", "--loader:.txt=json">>
  /\ st.b[1].Loader[".txt"] = "json"
  /\ DOMAIN st.b[1].Loader = {".txt"}

ListPool ==
  {"a.js", "b.js", "out=in.js", "x=y=z", "--external:fs", "--external:path",
   "--inject:i.js", "--pure:f", "--pure:g", "--serve", "--bogus",
   "--watch"}

InitLists == \E args \in SeqsUpTo(ListPool, MaxArgs) : Start(args)
SpecLists == InitLists /\ [][Next]_vars

\* the payloads of the flags of args that start with prefix, in order
Payloads(args, prefix) ==
  [i \in 1..Len(FlagsWith(args, prefix)) |-> PayloadOf(FlagsWith(args, prefix)[i], prefix)]

IsBareArg(arg) == arg = "" \/ SubSeq(arg, 1, 1) # "-"
HasEquals(arg) == \E i \in 1..Len(arg) : SubSeq(arg, i, i) = "="

\* C10: after a successful pass external, inject and pure are the payloads
\* of their flags in argument order, duplicates kept; the plain entry-point
\* list is the bare arguments without "=" in order, and the other list is
\* the bare arguments with "=", each split at its first "=".
C10_ListsAppendOnly ==
  (pc = "bound" /\ st.err = <<>>) =>
    /\ Bound.Pure = Payloads(bindArgs, "--pure:")
    /\ st.b # <<>> =>
         LET plain == SelectSeq(bindArgs, LAMBDA a : IsBareArg(a) /\ ~HasEquals(a))
             pairs == SelectSeq(bindArgs, LAMBDA a : IsBareArg(a) /\ HasEquals(a))
         IN  /\ st.b[1].External = Payloads(bindArgs, "--external:")
             /\ st.b[1].Inject = Payloads(bindArgs, "--inject:")
             /\ st.b[1].EntryPoints = plain
             /\ st.b[1].EntryPointsAdvanced =
                  [i \in 1..Len(pairs) |->
                    [OutputPath |-> KeyOf(pairs[i]), InputPath |-> ValueOf(pairs[i])]]

\* the same package is made external twice, and an entry point with two "="
C10_Witness ==
  /\ pc = "bound"
  /\ st.err = <<>>
  /\ bindArgs = <<"--external:fs", "x=y=z", "--external:fs">>
  /\ st.b[1].External = <<"fs", "fs">>
  /\ st.b[1].EntryPointsAdvanced = <<[OutputPath |-> "x", InputPath |-> "y=z"]>>
  /\ st.b[1].EntryPoints = <<>>

(***************************************************************************)
(* Engine constraints over several target flags.                           *)
(***************************************************************************)
RECURSIVE EnginesOfFlags(_)
\* the engine constraints of every target flag of args, in argument order
EnginesOfFlags(args) ==
  IF args = <<>> THEN <<>>
  ELSE (IF HasPrefix(Head(args), "--target=")
        THEN ExpectedEngines(TokensOf(Head(args))) ELSE <<>>)
         \o EnginesOfFlags(Tail(args))

LastTargetFlag(args) ==
  args[CHOOSE i \in TargetFlagsIn(args) : \A j \in TargetFlagsIn(args) : i >= j]

\* C11 as stated: after a successful pass the engine list holds the engine
\* constraints of every target flag, in first-seen order.
C11_AsStated ==
  (pc = "bound" /\ st.err = <<>> /\ TargetFlagsIn(bindArgs) # {}) =>
    Bound.Engines = EnginesOfFlags(bindArgs)

\* C11: the engine list is append-only within one target flag and is
\* assigned anew by each target flag: after a successful pass it holds the
\* engine constraints of the last target flag alone, in token order, and the
\* baseline is the one that flag names.
C11_LastTargetFlagWins ==
  (pc = "bound" /\ st.err = <<>> /\ TargetFlagsIn(bindArgs) # {}) =>
    LET toks == TokensOf(LastTargetFlag(bindArgs))
    IN  /\ Bound.Engines = ExpectedEngines(toks)
        /\ Bound.Target = ExpectedBaseline(toks)

\* two target flags: the constraint of the first is gone after the pass
C11_Witness ==
  /\ pc = "bound"
  /\ st.err = <<>>
  /\ bindArgs = <<"a.js", "--target=es5,node10", "--target=chrome80,edge16">>
  /\ st.b[1].Engines = <<[Name |-> "chrome", Version |-> "80"],
                         [Name |-> "edge", Version |-> "16"]>>
  /\ st.b[1].Target = "default"

(***************************************************************************)
(* The analyze flags and the list the rest of the run works on.            *)
(***************************************************************************)
IsAnalyzeArg(arg) == arg = "--analyze" \/ arg = "--analyze=verbose"
WithoutAnalyze(args) == SelectSeq(args, LAMBDA a : ~IsAnalyzeArg(a))

\* C12: the list that reaches serveImpl, and the one that reaches mode
\* selection and the binder, is the original list without its analyze
\* flags: every other argument once, in the original order.
C12_AnalyzeStripped ==
  /\ pc \in {"serveImpl", "parseOptionsForRun"} => osArgs = WithoutAnalyze(argv)
  /\ (caller = "run" /\ pc = "bind") => bindArgs = WithoutAnalyze(argv)

(***************************************************************************)
(* The serve flags.                                                        *)
(***************************************************************************)
ServePool ==
  {"--serve", "--serve=8000", "--serve=9000", "--serve=x", "--servedir=www",
   "--servedir=pub", "a.js", "--minify", "--outdir=d", "--watch"}

InitServe == \E args \in SeqsUpTo(ServePool, MaxArgs) : Start(args)
SpecServe == InitServe /\ [][Next]_vars

PassesServeFilter(arg) ==
  arg # "--serve" /\ ~HasPrefix(arg, "--serve=") /\ ~HasPrefix(arg, "--servedir=")

\* the payload of the last argument of args with the prefix, none if no
\* argument has it
LastPayload(args, prefix, none) ==
  LET hits == {i \in 1..Len(args) : HasPrefix(args[i], prefix)}
  IN  IF hits = {} THEN none
      ELSE PayloadOf(args[CHOOSE i \in hits : \A j \in hits : i >= j], prefix)

\* C13: when parseServeOptionsImpl succeeds, the list it hands to the binder
\* is its input without the arguments "--serve", "--serve=..." and
\* "--servedir=...", the others unchanged and in order; the directory is the
\* payload of the last "--servedir=" flag, and the host and port are those
\* the last "--serve=" flag alone would give, wherever a bare "--serve"
\* stands.
C13_ServeFilter ==
  (caller = "serve" /\ pc \in {"bind", "bound"}) =>
    /\ bindArgs = SelectSeq(osArgs, PassesServeFilter)
    /\ serveOptions[1].Servedir = LastPayload(osArgs, "--servedir=", "")
    /\ LET alone == parseServeOptionsImpl(
                      <<"--serve=" \o LastPayload(osArgs, "--serve=", "0")>>)
       IN  /\ alone.ok
           /\ serveOptions[1].Port = alone.serveOptions[1].Port
           /\ serveOptions[1].Host = alone.serveOptions[1].Host

\* a bare "--serve" after the flag that names the port, an entry point
\* between them
C13_Witness ==
  /\ caller = "serve"
  /\ pc = "bind"
  /\ osArgs = <<"--serve=9000", "a.js", "--serve">>
  /\ bindArgs = <<"a.js">>
  /\ serveOptions = <<[Port |-> 9000, Host |-> "", Servedir |-> ""]>>

(***************************************************************************)
(* The port of the serve flag.                                             *)
(***************************************************************************)
PortSpecs ==
  {"0", "8000", "0080", "+80", "65535", "65536", "70000", "131072", "-1", "",
   "abc", "80a", "2147483648", "99999999999", "127.0.0.1:9000", ":8000",
   "localhost:", "localhost:65536", "1:2:3", "[::1]:80"}

\* the arguments before the flag, and the flag or nothing
PortPrefixes ==
  {<<>>, <<"a.js">>, <<"--minify">>, <<"--outdir=d">>, <<"--serve">>,
   <<"--serve=9">>, <<"--serve=x", "a.js">>, <<"a.js", "--watch">>}
PortSuffixes == {<<>>} \cup {<<"--serve=" \o p>> : p \in PortSpecs}

InitPorts == \E pre \in PortPrefixes, post \in PortSuffixes : Start(pre \o post)
SpecPorts == InitPorts /\ [][Next]_vars

\* the text of the port in a serve spec: what follows the last ":"
PortTextOf(spec) ==
  IF ContainsRune(spec, ":") THEN SliceFrom(spec, LastIndexByte(spec, ":") + 1)
  ELSE spec

\* the host in a serve spec: what precedes the last ":", without the square
\* brackets around an IPv6 address
HostOf(spec) ==
  IF ~ContainsRune(spec, ":") THEN ""
  ELSE LET h == Slice(spec, 0, LastIndexByte(spec, ":"))
       IN  IF Len(h) >= 2 /\ SubSeq(h, 1, 1) = "[" /\ SubSeq(h, Len(h), Len(h)) = "]"
           THEN SubSeq(h, 2, Len(h) - 1) ELSE h

Unsigned(text) ==
  IF text # "" /\ SubSeq(text, 1, 1) \in {"+", "-"} THEN SliceFrom(text, 1) ELSE text

\* text is a decimal integer: an optional sign, then one digit or more
IsDecimal(text) ==
  /\ Unsigned(text) # ""
  /\ \A i \in 1..Len(Unsigned(text)) :
       SubSeq(Unsigned(text), i, i) \in
         {"0", "1", "2", "3", "4", "5", "6", "7", "8", "9"}

\* the decimal integer text lies in [0, 65535]
IsPort(text) ==
  /\ IsDecimal(text)
  /\ LET sig == TrimZeros(Unsigned(text))
     IN  /\ Len(sig) <= 5
         /\ DigitsValue(sig, 0) <= 65535
         /\ SubSeq(text, 1, 1) = "-" => DigitsValue(sig, 0) = 0

PortOf(text) == DigitsValue(TrimZeros(Unsigned(text)), 0)

\* C14: serveImpl goes on to the binder only when the port text of the last
\* "--serve=" flag is a decimal integer in [0, 65535], and then Port is that
\* integer and Host is what stands before the last ":" of the spec, empty
\* when there is no ":"; with no "--serve=" flag the port is 0 and the host
\* empty; any other port text ends the run with status 1 before the binder
\* and the engine are reached.
C14_ServePort ==
  LET none == "(none)"
      spec == LastPayload(osArgs, "--serve=", none)
  IN  /\ (caller = "serve" /\ spec = none) =>
           (serveOptions[1].Port = 0 /\ serveOptions[1].Host = "")
      /\ (caller = "serve" /\ spec # none) =>
           /\ IsPort(PortTextOf(spec))
           /\ serveOptions[1].Port = PortOf(PortTextOf(spec))
           /\ serveOptions[1].Host = HostOf(spec)
      /\ (spec # none /\ ~IsPort(PortTextOf(spec)) /\ pc \notin {"runImpl", "serveImpl"}) =>
           /\ pc = "done" /\ exit = <<1>>
           /\ caller = "none" /\ serveOptions = <<>> /\ engine = <<>>
           /\ Len(stderr) = 1

\* the largest port
C14_Witness ==
  /\ caller = "serve"
  /\ osArgs = <<"--serve=65535">>
  /\ serveOptions = <<[Port |-> 65535, Host |-> "", Servedir |-> ""]>>

(***************************************************************************)
(* The status runImpl returns.                                             *)
(***************************************************************************)
EntryCount(b) == Len(b.EntryPoints) + Len(b.EntryPointsAdvanced)

\* the flag parse failed
ParseFailed == err # <<>>

\* stdin could not be read, or entry points came with a stdin-only flag
StdinFatal ==
  \/ Printed("Could not read from stdin")
  \/ buildOptions # <<>> /\ EntryCount(buildOptions[1]) > 0 /\ buildOptions[1].Stdin # <<>>

\* a metafile was asked for without an output path, or its path is invalid
MetafileFatal ==
  \/ /\ buildOptions # <<>> /\ metafile # <<>>
     /\ buildOptions[1].Outfile = "" /\ buildOptions[1].Outdir = ""
  \/ Printed("Invalid metafile path")

\* the engine was called and its result reports an error
EngineReportedErrors == engine # <<>> /\ engine[Len(engine)].errors > 0

InWatchMode == buildOptions # <<>> /\ buildOptions[1].Watch # <<>>

\* C15: outside serve and watch mode runImpl returns 1 when the flag parse
\* failed, when a stdin or metafile fatal condition occurred or when the
\* engine reported an error, and 0 in every other case, a failed write of
\* the metafile included; in Transform mode the code is written to standard
\* output when the transform was run and reported no error, and only then.
C15_ExitStatus ==
  (pc = "done" /\ caller = "run" /\ ~InWatchMode) =>
    /\ exit = <<IF ParseFailed \/ StdinFatal \/ MetafileFatal \/ EngineReportedErrors
                THEN 1 ELSE 0>>
    /\ stdout = IF transformOptions # <<>> /\ engine # <<>> /\ ~EngineReportedErrors
                THEN "code" ELSE ""

\* the metafile could not be written and the build reported no error
C15_Witness ==
  /\ pc = "done"
  /\ argv = <<"a.js", "--metafile=m.json", "--outfile=o.js">>
  /\ Printed("Failed to write to output file")
  /\ engine # <<>> /\ engine[1].errors = 0
  /\ exit = <<0>>

(***************************************************************************)
(* Standard input in Build mode.                                           *)
(***************************************************************************)
StdinPool ==
  {"a.js", "o=i.js", "--bundle", "--sourcefile=s.js", "--loader=ts",
   "--minify", "--metafile=m.json", "--serve", "--bogus", "--watch"}

InitStdin == \E args \in SeqsUpTo(StdinPool, MaxArgs) : Start(args)
SpecStdin == InitStdin /\ [][Next]_vars

\* the contents of stdin have become the stdin payload of the build
HasStdinPayload(b) == b.Stdin # <<>> /\ b.Stdin[1].Contents = StdinContents

ConflictMessages ==
  {ErrorMsg("\"sourcefile\" only applies when reading from stdin"),
   ErrorMsg("\"loader\" without extension only applies when reading from stdin")}

\* C16: once runImpl is past its stdin step in Build mode, with no entry
\* point of either form stdin was read: its contents are the stdin payload,
\* or the read failed and runImpl returned 1; with an entry point stdin was
\* not read: there is no payload and no read failure, and when a stdin-only
\* flag was given as well runImpl has printed the conflict, and nothing
\* else, and returned 1 without calling the engine.
C16_StdinHandling ==
  (caller = "run" /\ buildOptions # <<>> /\ pc \in {"build", "built", "blocked", "done"}) =>
    LET b == buildOptions[1]
    IN  /\ EntryCount(b) = 0 =>
             \/ HasStdinPayload(b) /\ ~Printed("Could not read from stdin")
             \/ /\ ~HasStdinPayload(b)
                /\ stderr = <<ErrorMsg("Could not read from stdin: error")>>
                /\ pc = "done" /\ exit = <<1>> /\ engine = <<>>
        /\ EntryCount(b) > 0 =>
             /\ ~HasStdinPayload(b)
             /\ ~Printed("Could not read from stdin")
             /\ b.Stdin # <<>> =>
                  /\ Len(stderr) = 1 /\ stderr[1] \in ConflictMessages
                  /\ pc = "done" /\ exit = <<1>> /\ engine = <<>>

\* an entry point of the second form together with the extensionless loader
C16_Witness ==
  /\ pc = "done"
  /\ argv = <<"o=i.js", "--loader=ts">>
  /\ buildOptions[1].Stdin = <<[newStdinOptions EXCEPT !.Loader = "ts"]>>
  /\ stderr = <<ErrorMsg("\"loader\" without extension only applies when reading from stdin")>>
  /\ exit = <<1>>

(***************************************************************************)
(* Watch mode.                                                             *)
(***************************************************************************)
\* C17: in a Build run with "--watch", no state after the call of api.Build
\* has an exit status, whatever number of errors the build and the rebuilds
\* report: runImpl stands at its wait or before it; a watch-mode run that
\* has returned has returned 1 on a stdin or metafile fatal condition,
\* without any call of the engine.
C17_WatchNeverReturns ==
  InWatchMode =>
    /\ engine # <<>> => (exit = <<>> /\ pc \in {"built", "blocked"})
    /\ pc = "blocked" => engine # <<>>
    /\ pc = "done" =>
         (exit = <<1>> /\ engine = <<>> /\ (StdinFatal \/ MetafileFatal))

\* the build reported an error, the engine has rebuilt since, and runImpl
\* still waits
C17_Witness ==
  /\ pc = "blocked"
  /\ argv = <<"a.js", "--watch">>
  /\ Len(engine) = 2
  /\ engine[1].api = "Build" /\ engine[1].errors = 1
  /\ engine[2].api = "Rebuild"
  /\ exit = <<>>

(***************************************************************************)
(* The two output paths.                                                   *)
(***************************************************************************)
BothOutputPaths(b) == b.Outfile # "" /\ b.Outdir # ""

\* C18 as stated: a successfully parsed Build config never has both the
\* output file and the output directory set.
C18_AsStated ==
  /\ (pc = "bound" /\ st.err = <<>> /\ st.b # <<>>) => ~BothOutputPaths(st.b[1])
  /\ buildOptions # <<>> => ~BothOutputPaths(buildOptions[1])

\* C18: the binder sets the two output paths independently of each other,
\* each to the payload of the last flag that names it: a successfully
\* parsed Build config has both set exactly when the last "--outfile=" and
\* the last "--outdir=" flag both have a payload, and the engine is called
\* with the two as they were bound.
C18_OutputPathsIndependent ==
  LET file == LastPayload(bindArgs, "--outfile=", "")
      dir  == LastPayload(bindArgs, "--outdir=", "")
  IN  /\ (pc = "bound" /\ st.err = <<>> /\ st.b # <<>>) =>
           /\ st.b[1].Outfile = file
           /\ st.b[1].Outdir = dir
           /\ BothOutputPaths(st.b[1]) <=> (file # "" /\ dir # "")
      /\ buildOptions # <<>> =>
           (buildOptions[1].Outfile = file /\ buildOptions[1].Outdir = dir)
      /\ \A i \in 1..Len(engine) :
           engine[i].api # "Transform" =>
             (engine[i].options.Outfile = file /\ engine[i].options.Outdir = dir)

\* api.Build has been called with an output file and an output directory
C18_Witness ==
  /\ pc = "built"
  /\ argv = <<"a.js", "--outfile=o.js", "--outdir=d">>
  /\ engine[1].api = "Build"
  /\ engine[1].options.Outfile = "o.js"
  /\ engine[1].options.Outdir = "d"

(***************************************************************************)
(* Arguments written with one dash.                                        *)
(***************************************************************************)
DashArgs ==
  {"-bundle", "-watch", "-define=K=V", "-define:K=V", "-outfile:x", "-outfile=x",
   "-outfile:a=b", "-loader:.js=jsx", "-loader=ts", "-banner:js=x", "-bundle=x",
   "-metafile", "-metafile=m.json", "-x", "-x=1", "-", "-o", "-v", "-o=x"}

\* the arguments before the one-dash argument, and that argument or nothing
DashPrefixes ==
  {<<>>, <<"a.js">>, <<"--minify">>, <<"--serve">>, <<"a.js", "--watch">>,
   <<"--bundle", "--outfile=o.js">>}
DashSuffixes == {<<>>} \cup {<<d>> : d \in DashArgs}

InitDash == \E pre \in DashPrefixes, post \in DashSuffixes : Start(pre \o post)
SpecDash == InitDash /\ [][Next]_vars

IsSingleDash(arg) == HasPrefix(arg, "-") /\ ~HasPrefix(arg, "--")

TwoDashes == "Flags are always specified with two dashes instead of one dash."

HasSuffix(s, suffix) ==
  Len(s) >= Len(suffix) /\ SubSeq(s, Len(s) - Len(suffix) + 1, Len(s)) = suffix

\* the two-dash forms of arg in a syntax its name is registered with in the
\* classification tables: the name as a bare flag, or the key before the
\* first "=" or the first ":" followed by the separator of its table
TwoDashForms(arg) ==
  LET seps == {IndexByte(arg, "="), IndexByte(arg, ":")} \ {-1}
      with(p, sep) == "-" \o Slice(arg, 0, p) \o sep \o SliceFrom(arg, p + 1)
  IN  {"-" \o arg : x \in {SliceFrom(arg, 1)} \cap bare}
        \cup {with(p, "=") : p \in {q \in seps : Slice(arg, 1, q) \in equals}}
        \cup {with(p, ":") : p \in {q \in seps : Slice(arg, 1, q) \in colon}}

\* C19: the binder never passes an argument that starts with exactly one
\* dash; when it fails on one whose name is in the bare table, or whose key
\* before its first "=" or ":" is in the equals or the colon table, the
\* note suggests a two-dash form of the argument with the separator of the
\* table the key is in; on any other one-dash argument the note makes no
\* two-dash suggestion; runImpl is handed the error with that note.
C19_SingleDashCorrection ==
  /\ pc = "bind" => \A k \in 1..(bindIdx - 1) : ~IsSingleDash(bindArgs[k])
  /\ (pc \in {"bound", "dispatch"} /\ st.err # <<>> /\ IsSingleDash(bindArgs[bindIdx])) =>
       LET arg  == bindArgs[bindIdx]
           note == st.err[1].Note
       IN  /\ st.err[1].Text \in {"Invalid build flag: " \o Quote(arg),
                                  "Invalid transform flag: " \o Quote(arg)}
           /\ TwoDashForms(arg) # {} =>
                \E fix \in TwoDashForms(arg) : note = UseInstead(fix, arg, TwoDashes)
           /\ TwoDashForms(arg) = {} => ~HasSuffix(note, TwoDashes)
           /\ (pc = "dispatch" /\ caller = "run") => err = st.err

\* "=" written for the ":" of a flag of the colon table
C19_Witness ==
  /\ pc = "bound"
  /\ bindArgs = <<"a.js", "-define=K=V">>
  /\ bindIdx = 2
  /\ st.err[1].Note = "Use \"--define:K=V\" instead of \"-define=K=V\". Flags are always specified with two dashes instead of one dash."

(***************************************************************************)
(* The note of an invalid target.                                          *)
(***************************************************************************)
InvalidTargetError == st.err # <<>> /\ HasPrefix(st.err[1].Text, "Invalid target ")

\* the valid forms as a note lists them
FormsNote(forms) ==
  "Valid values are "
    \o Join([i \in 1..(Len(forms) - 1) |-> Quote(forms[i])], ", ")
    \o ", or " \o Quote(forms[Len(forms)]) \o " where N is a version number."

\* C20 as stated: the note lists "esN" first, then the engine forms in
\* alphabetical order.
C20_AsStated ==
  InvalidTargetError =>
    st.err[1].Note =
      FormsNote(<<"esN", "chromeN", "edgeN", "firefoxN", "iosN", "nodeN", "safariN">>)

\* C20: the note of an invalid-target error lists the seven valid forms in
\* alphabetical order, the baseline pattern "esN" among the engine forms as
\* the third of them, whatever the iteration order over the engine table.
C20_NoteAlphabetical ==
  InvalidTargetError =>
    st.err[1].Note =
      FormsNote(<<"chromeN", "edgeN", "esN", "firefoxN", "iosN", "nodeN", "safariN">>)

\* the binder has failed on a token that is no baseline and no engine
C20_Witness ==
  /\ pc = "bound"
  /\ bindArgs = <<"a.js", "--target=es2018,bogus">>
  /\ st.err[1].Text = "Invalid target \"bogus\" in \"--target=es2018,bogus\""
  /\ st.err[1].Note = "Valid values are \"chromeN\", \"edgeN\", \"esN\", \"firefoxN\", \"iosN\", \"nodeN\", or \"safariN\" where N is a version number."

(***************************************************************************)
(* The rules of the Error Advisor.                                         *)
(***************************************************************************)
AdvisorArgs ==
  {"--define=K=V", "--define=K:V", "--pure=f", "--external=fs", "--outfile:x",
   "--outfile:a=b", "--target:es6", "--banner=a:b", "--banner:js=x",
   "--loader:.js=jsx", "--footer=x", "--bogus", "--bogus=x", "--bogus:x",
   "--=x", "--:x", "-bundle", "-define=K=V", "-o", "-v", "-x",
   "'--define:K=V'"}

\* the arguments before the one the advisor is asked about, and that
\* argument or nothing
AdvisorPrefixes ==
  {<<>>, <<"a.js">>, <<"--minify">>, <<"--serve">>, <<"a.js", "--watch">>}
AdvisorSuffixes == {<<>>} \cup {<<a>> : a \in AdvisorArgs}

InitAdvisor == \E pre \in AdvisorPrefixes, post \in AdvisorSuffixes : Start(pre \o post)
SpecAdvisor == InitAdvisor /\ [][Next]_vars

\* the key of arg before its first sep, <<>> when sep is not in arg
KeyBefore(arg, sep) ==
  IF IndexByte(arg, sep) = -1 THEN <<>>
  ELSE <<Slice(arg, 2, IndexByte(arg, sep))>>

\* the rules of the advisor that apply to arg, each with the note it gives
EqualsToColon(arg) ==
  /\ HasPrefix(arg, "--")
  /\ KeyBefore(arg, "=") # <<>> /\ KeyBefore(arg, "=")[1] \in colon
ColonToEquals(arg) ==
  /\ HasPrefix(arg, "--")
  /\ KeyBefore(arg, ":") # <<>> /\ KeyBefore(arg, ":")[1] \in equals
OneToTwoDashes(arg) ==
  IsSingleDash(arg) /\ arg \notin {"-o", "-v"} /\ TwoDashForms(arg) # {}

ReplaceFirst(arg, sep, by) ==
  Slice(arg, 0, IndexByte(arg, sep)) \o by \o SliceFrom(arg, IndexByte(arg, sep) + 1)

RulesFor(arg) ==
  {r \in {"-o", "-v", "equals-to-colon", "colon-to-equals", "two-dashes"} :
     \/ r = arg
     \/ r = "equals-to-colon" /\ EqualsToColon(arg)
     \/ r = "colon-to-equals" /\ ColonToEquals(arg)
     \/ r = "two-dashes" /\ OneToTwoDashes(arg)}

\* the binder has returned from its default case: the argument at hand is
\* an invalid flag
RejectedAsFlag ==
  /\ pc = "bound"
  /\ st.err # <<>>
  /\ st.err[1].Text \in {"Invalid build flag: " \o Quote(bindArgs[bindIdx]),
                         "Invalid transform flag: " \o Quote(bindArgs[bindIdx])}

\* C21: for an argument the binder rejects as an invalid flag at most one
\* rule of the advisor applies; the two rules for an argument with two
\* dashes never apply together, and the note is the one of the rule that
\* applies, the empty note when none does.  No key of the two tables holds a
\* separator, which is why the key before the first "=" and the key before
\* the first ":" cannot both be in a table.
C21_RulesExclusive ==
  /\ \A k \in equals \cup colon : ~ContainsRune(k, "=") /\ ~ContainsRune(k, ":")
  /\ RejectedAsFlag =>
       LET arg  == bindArgs[bindIdx]
           note == st.err[1].Note
       IN  /\ Cardinality(RulesFor(arg)) <= 1
           /\ ~(EqualsToColon(arg) /\ ColonToEquals(arg))
           /\ EqualsToColon(arg) =>
                note = UseInstead(ReplaceFirst(arg, "=", ":"), arg,
                         "Flags that can be re-specified multiple times use \":\" instead of \"=\".")
           /\ ColonToEquals(arg) =>
                note = UseInstead(ReplaceFirst(arg, ":", "="), arg,
                         "Flags that can only be specified once use \"=\" instead of \":\".")
           /\ OneToTwoDashes(arg) => HasSuffix(note, TwoDashes)
           /\ RulesFor(arg) = {} => note = ""

\* "=" for ":" in an argument that has a ":" after it: the first check gives
\* the note and the second leaves it
C21_Witness ==
  /\ pc = "bound"
  /\ bindArgs = <<"a.js", "--banner=a:b">>
  /\ bindIdx = 2
  /\ st.err # <<>>
  /\ st.err[1].Note = "Use \"--banner:a:b\" instead of \"--banner=a:b\". Flags that can be re-specified multiple times use \":\" instead of \"=\"."

(***************************************************************************)
(* What the user is told about a flag error.                               *)
(***************************************************************************)
\* the flag error of the run, <<>> when there is none
FlagError == IF caller = "serve" THEN st.err ELSE err

\* C22: a run that ended on a flag error has printed that error once, as
\* one message with its note, in the run path and in serve mode alike.
C22_ReportedOnce ==
  (pc = "done" /\ caller \in {"run", "serve"} /\ FlagError # <<>>) =>
    stderr = <<[Text |-> FlagError[1].Text, Note |-> FlagError[1].Note]>>

(***************************************************************************)
(* The closure that writes the metafile.                                   *)
(***************************************************************************)
MetafilePrefixes ==
  {<<>>, <<"--metafile=m.json", "--outfile=o.js">>,
   <<"a.js", "--metafile=m.json", "--outdir=out">>,
   <<"--metafile=m.json">>, <<"a.js", "--outfile=o.js">>}

MetafileSuffixes ==
  {<<>>, <<"--watch">>, <<"--analyze">>, <<"--watch", "--analyze">>,
   <<"--serve">>, <<"--bogus">>, <<"--minify">>}

InitMetafile == \E pre \in MetafilePrefixes, post \in MetafileSuffixes : Start(pre \o post)

SpecMetafile == InitMetafile /\ [][Next]_vars

\* the positions of fsLog where the closure is called
ClosureCalls == {i \in 1..Len(fsLog) : fsLog[i].op = "writeMetafile"}

\* the operation that follows position i in fsLog, "" when there is none
OpAfter(i) == IF i < Len(fsLog) THEN fsLog[i + 1].op ELSE ""

\* the metafiles of the builds of the engine, in order
BuildPayloads == [i \in 1..Len(engine) |-> engine[i].metafile]

\* the messages of stderr that report a failure of the closure
WriteReports ==
  {i \in 1..Len(stderr) :
     stderr[i].Text \in {"Failed to create output directory: error",
                         "Failed to write to output file: error"}}

\* the file system calls that failed
FailedCalls == {i \in 1..Len(fsLog) : ~fsLog[i].ok}

BuildsWithMetafile == {i \in 1..Len(engine) : engine[i].metafile # ""}

\* the most recent of them
LatestWithMetafile == CHOOSE i \in BuildsWithMetafile : \A j \in BuildsWithMetafile : j <= i

\* C24: in watch mode with a metafile path, once the write after the initial
\* build and the writes of the rebuilds so far have all been made, the file
\* holds the metafile of the most recent build that made one.
C24_LatestMetafileOnDisk ==
  (/\ pc = "blocked"
   /\ writeMetafile # <<>>
   /\ FailedCalls = {}
   /\ BuildsWithMetafile # {}) =>
    LET path == writeMetafile[1].metafileAbsPath
    IN  /\ path \in DOMAIN files
        /\ files[path] = engine[LatestWithMetafile].metafile

(***************************************************************************)
(* The corrected flags of the advisor, given back to the binder.            *)
(***************************************************************************)
\* the binder of the run path at its first argument, in Build mode and in
\* Transform mode
BinderStarts ==
  {parseOptionsImplStart(<<newBuildOptions>>, <<>>),
   parseOptionsImplStart(<<>>, <<newTransformOptions>>)}

\* the binder of the run path has a case for flag in one of the two modes:
\* it does not reach the default case
MatchedByBinder(flag) ==
  \E s \in BinderStarts, order \in EngineOrders :
    LET r == parseOptionsImplStep(s, flag, kindInternal, order)
    IN  \/ r.err = <<>>
        \/ r.err[1].Text \notin {"Invalid build flag: " \o Quote(flag),
                                 "Invalid transform flag: " \o Quote(flag)}

\* the corrected flags the advisor can give for arg
FixesFor(arg) ==
  {"-" \o arg}
  \cup (IF ContainsRune(arg, "=")
        THEN {ReplaceFirst(arg, "=", ":"), "-" \o ReplaceFirst(arg, "=", ":")} ELSE {})
  \cup (IF ContainsRune(arg, ":")
        THEN {ReplaceFirst(arg, ":", "="), "-" \o ReplaceFirst(arg, ":", "=")} ELSE {})

\* the corrected flags the note of the binder's error names
SuggestedFixes ==
  {fix \in FixesFor(bindArgs[bindIdx]) :
     HasPrefix(st.err[1].Note,
               "Use " \o Quote(fix) \o " instead of " \o Quote(bindArgs[bindIdx]) \o ". ")}

\* the names of the tables that the binder of the run path has no case for
\* in the form of their table
UnmatchedNames ==
  {k \in bare : ~MatchedByBinder("--" \o k)}
  \cup {k \in equals : ~MatchedByBinder("--" \o k \o "=x")}
  \cup {k \in colon : ~MatchedByBinder("--" \o k \o ":x")}

\* C25: when the advisor is consulted, the corrected flag of its note is a
\* flag the binder of the run path matches in Build or in Transform mode,
\* and so is every name of its three tables in the form of its table, the
\* bare "--metafile" among them.
C25_SuggestionsAccepted ==
  RejectedAsFlag =>
    /\ \A fix \in SuggestedFixes : MatchedByBinder(fix)
    /\ UnmatchedNames = {}
    /\ MatchedByBinder("--metafile")

====
